---- MODULE Spec2Model ----
(***************************************************************************)
(* SecureDataAPI: the permission-gated CRUD gateway over blob-stored JSON  *)
(* documents (src/azure-function/SecureDataAPI/index.js).                  *)
(*                                                                         *)
(* JavaScript strings are sequences of one-character strings, so that      *)
(* split('-'), template formatting and === are computed, not assumed.      *)
(* JavaScript values are tagged records, so that 5 and "5" differ.         *)
(***************************************************************************)
EXTENDS Integers, Sequences, FiniteSets, TLC

(* ------------------------------ bounds --------------------------------- *)

\* Number of requests handled in one behaviour (the clock advances by one
\* millisecond per request).
MaxRequests == 2

\* invocations of the function in progress at the same time
MaxInflight == 2

\* longest list of incoming (fetched) monthly records
MaxIncoming == 2

\* how often a merge is applied to the same database and incoming data
MaxApplications == 2

\* calls of UserStore.create, update and delete in a run
MaxUserCalls == 2

(* ------------------------- JavaScript values --------------------------- *)

Absent    == [t |-> "absent",    s |-> <<>>]
Undefined == [t |-> "undefined", s |-> <<>>]
Null      == [t |-> "null",      s |-> <<>>]
Str(s)    == [t |-> "string",    s |-> s]
Num(s)    == [t |-> "number",    s |-> s]

\* !v for the scalar values of the model
Falsy(v) ==
    \/ v.t \in {"absent", "undefined", "null"}
    \/ v.t = "string" /\ v.s = <<>>
    \/ v.t = "number" /\ v.s = <<"0">>

FieldNames ==
    {"id", "_id", "profileId", "name",
     "createdAt", "createdBy", "updatedAt", "updatedBy"}

EmptyObj == [f \in FieldNames |-> Absent]

\* o.f : reading a property the object does not have gives undefined
Read(o, f) == IF o[f].t = "absent" THEN Undefined ELSE o[f]

\* { ...a, ...b }
Spread(a, b) == [f \in FieldNames |-> IF b[f].t # "absent" THEN b[f] ELSE a[f]]

\* JSON.parse(JSON.stringify(o)) of an object: undefined properties vanish
JsonObj(o) == [f \in FieldNames |-> IF o[f].t = "undefined" THEN Absent ELSE o[f]]

\* the own properties of an object
Keys(o) == {f \in FieldNames : o[f].t # "absent"}

\* array elements
ObjItem(o) == [t |-> "object", o |-> o]
NullItem   == [t |-> "null",   o |-> EmptyObj]

\* documents and request bodies
AbsentDoc    == [t |-> "absent",    o |-> EmptyObj, a |-> <<>>]
UndefinedDoc == [t |-> "undefined", o |-> EmptyObj, a |-> <<>>]
NullDoc      == [t |-> "null",      o |-> EmptyObj, a |-> <<>>]
ObjectDoc(o) == [t |-> "object",    o |-> o,        a |-> <<>>]
ArrayDoc(a)  == [t |-> "array",     o |-> EmptyObj, a |-> a]

JsonItem(it) == IF it.t = "object" THEN ObjItem(JsonObj(it.o)) ELSE it

\* JSON.parse(JSON.stringify(d)) of a document
JsonDoc(d) ==
    IF d.t = "object" THEN ObjectDoc(JsonObj(d.o))
    ELSE IF d.t = "array" THEN ArrayDoc([i \in 1..Len(d.a) |-> JsonItem(d.a[i])])
    ELSE d

(* ------------------------------ strings -------------------------------- *)

DigitChars == <<"0", "1", "2", "3", "4", "5", "6", "7", "8", "9">>

DigitSet == {DigitChars[i] : i \in 1..10}

AlnumSet ==
    DigitSet \cup
    {"a", "b", "c", "d", "e", "f", "g", "h", "i", "j", "k", "l", "m",
     "n", "o", "p", "q", "r", "s", "t", "u", "v", "w", "x", "y", "z"}

\* `${n}` of a non-negative integer
RECURSIVE Digits(_)
Digits(n) ==
    IF n < 10 THEN <<DigitChars[n + 1]>>
    ELSE Digits(n \div 10) \o <<DigitChars[(n % 10) + 1]>>

\* s.split(sep)
Split(s, sep) ==
    LET RECURSIVE go(_, _, _)
        go(i, cur, acc) ==
            IF i > Len(s) THEN Append(acc, cur)
            ELSE IF s[i] = sep THEN go(i + 1, <<>>, Append(acc, cur))
            ELSE go(i + 1, Append(cur, s[i]), acc)
    IN go(1, <<>>, <<>>)

\* new Date(ms).toISOString() for 0 <= ms < 1000
toISOString(ms) ==
    <<"1", "9", "7", "0", "-", "0", "1", "-", "0", "1", "T",
      "0", "0", ":", "0", "0", ":", "0", "0", ".">>
    \o (IF ms < 10 THEN <<"0", "0">> ELSE IF ms < 100 THEN <<"0">> ELSE <<>>)
    \o Digits(ms) \o <<"Z">>

(* --------------------------- permissions ------------------------------- *)

sSes      == <<"s", "e", "s">>
sAdmin    == <<"a", "d", "m", "i", "n">>
sAe       == <<"a", "e">>
sWidget   == <<"w", "i", "d", "g", "e", "t">>
sWorkflow == <<"w", "o", "r", "k", "f", "l", "o", "w">>
sReadonly == <<"r", "e", "a", "d", "o", "n", "l", "y">>
sBogus    == <<"b", "o", "g", "u", "s">>
sCtor     == <<"c", "o", "n", "s", "t", "r", "u", "c", "t", "o", "r">>

AllDocs ==
    {"clients.json", "users.json", "contracts.json", "lmp-database.json",
     "accounts.json", "energy-profiles.json", "activity-log.json",
     "usage-profiles.json", "tickets.json", "widget-preferences.json"}

\* a table in which widget may delete a document it may not write
FILE_PERMISSIONS_WidgetDeletes ==
    (sAdmin :> [read   |-> AllDocs,
                write  |-> AllDocs,
                delete |-> {"energy-profiles.json", "tickets.json"}])
    @@
    (sAe :> [read   |-> {"clients.json", "contracts.json", "accounts.json",
                         "energy-profiles.json", "usage-profiles.json"},
             write  |-> {"energy-profiles.json", "contracts.json",
                         "usage-profiles.json"},
             delete |-> {"energy-profiles.json"}])
    @@
    (sWidget :> [read   |-> {"clients.json", "accounts.json",
                             "energy-profiles.json", "usage-profiles.json",
                             "widget-preferences.json", "activity-log.json"},
                 write  |-> {"energy-profiles.json", "usage-profiles.json",
                             "widget-preferences.json", "activity-log.json"},
                 delete |-> {"clients.json"}])
    @@
    (sWorkflow :> [read   |-> {"lmp-database.json"},
                   write  |-> {"lmp-database.json"},
                   delete |-> {}])
    @@
    (sReadonly :> [read   |-> {"lmp-database.json"},
                   write  |-> {},
                   delete |-> {}])

FILE_PERMISSIONS ==
    (sAdmin :> [read   |-> AllDocs,
                write  |-> AllDocs,
                delete |-> {"energy-profiles.json", "tickets.json"}])
    @@
    (sAe :> [read   |-> {"clients.json", "contracts.json", "accounts.json",
                         "energy-profiles.json", "usage-profiles.json"},
             write  |-> {"energy-profiles.json", "contracts.json",
                         "usage-profiles.json"},
             delete |-> {"energy-profiles.json"}])
    @@
    (sWidget :> [read   |-> {"clients.json", "accounts.json",
                             "energy-profiles.json", "usage-profiles.json",
                             "widget-preferences.json", "activity-log.json"},
                 write  |-> {"energy-profiles.json", "usage-profiles.json",
                             "widget-preferences.json", "activity-log.json"},
                 delete |-> {}])
    @@
    (sWorkflow :> [read   |-> {"lmp-database.json"},
                   write  |-> {"lmp-database.json"},
                   delete |-> {}])
    @@
    (sReadonly :> [read   |-> {"lmp-database.json"},
                   write  |-> {},
                   delete |-> {}])

\* Property names every object literal inherits from Object.prototype:
\* FILE_PERMISSIONS[name] is truthy for them although the literal has no
\* such role.  Their values have no read, write or delete property.
ObjectPrototypeProps == {sCtor}

Operations == {"read", "write", "delete"}

\* getRoleFromKey without the test of the first segment
getRoleFromKey_AnyTag(apiKey) ==
    LET parts == Split(apiKey, "-")
    IN IF Len(parts) >= 2 THEN Str(parts[2]) ELSE Null

getRoleFromKey(apiKey) ==
    LET parts == Split(apiKey, "-")
    IN IF Len(parts) >= 2 /\ parts[1] = sSes THEN Str(parts[2]) ELSE Null

\* a check that looks the document up in the role's read list whatever the
\* operation
hasPermission_ReadList(apiKey, filename, operation) ==
    LET role == getRoleFromKey(apiKey)
    IN /\ ~Falsy(role)
       /\ role.s \in DOMAIN FILE_PERMISSIONS
       /\ filename \in FILE_PERMISSIONS[role.s]["read"]

\* a check that is content with any role's list for the operation
hasPermission_AnyRole(apiKey, filename, operation) ==
    LET role == getRoleFromKey(apiKey)
    IN /\ ~Falsy(role)
       /\ role.s \in DOMAIN FILE_PERMISSIONS
       /\ operation \in Operations
       /\ \E other \in DOMAIN FILE_PERMISSIONS :
              filename \in FILE_PERMISSIONS[other][operation]

hasPermission(apiKey, filename, operation) ==
    LET role == getRoleFromKey(apiKey)
    IN IF Falsy(role)
          \/ ~(role.s \in DOMAIN FILE_PERMISSIONS \/ role.s \in ObjectPrototypeProps)
       THEN FALSE
       ELSE LET permissions ==
                    IF role.s \in DOMAIN FILE_PERMISSIONS
                       /\ operation \in Operations
                    THEN FILE_PERMISSIONS[role.s][operation]
                    ELSE {}
            IN filename \in permissions

\* Math.random().toString(36).substr(2, 9), for Math.random() in (0, 1)
RandomSuffixes == {<<"i">>, <<"4", "f", "z">>}

\* generateId without the separator
generateId_NoDash(ms, rnd) == Digits(ms) \o rnd

generateId(ms, rnd) == Digits(ms) \o <<"-">> \o rnd

(* --------------------------- blob operations --------------------------- *)

\* getBlob: null when the blob does not exist, else the parsed content
\* (which is null too when the blob holds the JSON text null)
getBlob(st, filename) ==
    IF st[filename].t \in {"absent", "null"} THEN NullDoc ELSE st[filename]

\* saveBlob: JSON.stringify(undefined) is undefined and Buffer.byteLength
\* throws on it before anything is uploaded
saveBlobThrows(data) == data.t = "undefined"

saveBlob(st, filename, data) == [st EXCEPT ![filename] = JsonDoc(data)]

\* an existence test that takes a blob holding the JSON text null for a
\* missing one, as the callers of getBlob do
deleteBlobExists_NullIsMissing(st, filename) ==
    st[filename].t \notin {"absent", "null"}

\* deleteBlob: false when the blob does not exist
deleteBlobExists(st, filename) == st[filename].t # "absent"

deleteBlob(st, filename) == [st EXCEPT ![filename] = AbsentDoc]

(* --------------------------- record location --------------------------- *)

\* item.id === recordId || item._id === recordId || item.profileId === recordId
Matches(o, recordId) ==
    \/ Read(o, "id") = recordId
    \/ Read(o, "_id") = recordId
    \/ Read(o, "profileId") = recordId

\* findIndex taking the last match instead of the first
FindIndex_Last(a, recordId) ==
    LET RECURSIVE scan(_)
        scan(i) ==
            IF i < 1 THEN [threw |-> FALSE, index |-> 0]
            ELSE IF a[i].t = "null" THEN [threw |-> TRUE, index |-> 0]
            ELSE IF Matches(a[i].o, recordId) THEN [threw |-> FALSE, index |-> i]
            ELSE scan(i - 1)
    IN scan(Len(a))

\* Array.prototype.find / findIndex with the predicate above: 1-based index
\* of the first match, 0 for none; reading a property of a null element
\* throws a TypeError
FindIndex(a, recordId) ==
    LET RECURSIVE scan(_)
        scan(i) ==
            IF i > Len(a) THEN [threw |-> FALSE, index |-> 0]
            ELSE IF a[i].t = "null" THEN [threw |-> TRUE, index |-> 0]
            ELSE IF Matches(a[i].o, recordId) THEN [threw |-> FALSE, index |-> i]
            ELSE scan(i + 1)
    IN scan(1)

\* a removal that drops the first matching element only
FilterOut_FirstOnly(a, recordId) ==
    IF \E i \in 1..Len(a) : a[i].t = "null"
    THEN [threw |-> TRUE, kept |-> <<>>]
    ELSE LET hits == {i \in 1..Len(a) : Matches(a[i].o, recordId)}
         IN IF hits = {} THEN [threw |-> FALSE, kept |-> a]
            ELSE LET first == CHOOSE i \in hits : \A j \in hits : i <= j
                 IN [threw |-> FALSE,
                     kept  |-> [i \in 1..(Len(a) - 1) |->
                                   IF i < first THEN a[i] ELSE a[i + 1]]]

\* Array.prototype.filter keeping the elements that match on none of the
\* three fields
FilterOut(a, recordId) ==
    IF \E i \in 1..Len(a) : a[i].t = "null"
    THEN [threw |-> TRUE, kept |-> <<>>]
    ELSE [threw |-> FALSE,
          kept  |-> SelectSeq(a, LAMBDA it : ~Matches(it.o, recordId))]

(* ------------------------------ responses ------------------------------ *)

NoRecord == [t |-> "none", o |-> EmptyObj]

\* context.res never assigned
NoResponse ==
    [status |-> 0, shape |-> "none", error |-> "", message |-> "",
     success |-> "absent", record |-> NoRecord, data |-> AbsentDoc]

Preflight204 == [NoResponse EXCEPT !.status = 204]

\* { error, message }
ErrorBody(status, error, message) ==
    [NoResponse EXCEPT !.status = status, !.shape = "error",
                       !.error = error, !.message = message]

\* { success, message } with an optional record
ResultBody(status, success, message, record) ==
    [NoResponse EXCEPT !.status = status, !.shape = "result",
                       !.success = success, !.message = message,
                       !.record = record]

\* JSON.stringify(record)
RecordBody(status, o) ==
    [NoResponse EXCEPT !.status = status, !.shape = "record",
                       !.record = [t |-> "object", o |-> JsonObj(o)]]

\* JSON.stringify(data)
DocumentBody(status, d) ==
    [NoResponse EXCEPT !.status = status, !.shape = "document",
                       !.data = JsonDoc(d)]

\* the catch block
ServerError(message) == ErrorBody(500, "Server Error", message)

NullItemError == "Cannot read properties of null (reading 'id')"

UploadError == "The \"string\" argument must be of type string"

(* ------------------------------- gateway ------------------------------- *)

NotChecked == [reached |-> FALSE, operation |-> "", allowed |-> FALSE]

\* the operation mapping with PATCH left out of the write methods
OperationOf_PatchIsDelete(method) ==
    IF method = "GET" THEN "read"
    ELSE IF method \in {"POST", "PUT"} THEN "write"
    ELSE "delete"

\* the operation derived from the method
OperationOf(method) ==
    IF method = "GET" THEN "read"
    ELSE IF method \in {"POST", "PUT", "PATCH"} THEN "write"
    ELSE "delete"

\* the entry gates with the filename test ahead of authentication
Gate_FilenameFirst(method, apiKey, filename, vk) ==
    IF method = "OPTIONS"
    THEN [passed |-> FALSE, res |-> Preflight204, checked |-> NotChecked]
    ELSE IF filename = ""
    THEN [passed |-> FALSE,
          res |-> ErrorBody(400, "Bad Request", "Filename required."),
          checked |-> NotChecked]
    ELSE IF Falsy(apiKey) \/ apiKey.s \notin vk
    THEN [passed |-> FALSE,
          res |-> ErrorBody(401, "Unauthorized", "Valid API key required."),
          checked |-> NotChecked]
    ELSE LET operation == OperationOf(method)
             allowed   == hasPermission(apiKey.s, filename, operation)
             chk == [reached |-> TRUE, operation |-> operation, allowed |-> allowed]
         IN IF ~allowed
            THEN [passed |-> FALSE,
                  res |-> ErrorBody(403, "Forbidden", "Your API key cannot ${operation} ${filename}."),
                  checked |-> chk]
            ELSE [passed |-> TRUE, res |-> NoResponse, checked |-> chk]

\* the entry gates without the membership test against the valid-key list
Gate_NoMembership(method, apiKey, filename, vk) ==
    IF method = "OPTIONS"
    THEN [passed |-> FALSE, res |-> Preflight204, checked |-> NotChecked]
    ELSE IF Falsy(apiKey)
    THEN [passed |-> FALSE,
          res |-> ErrorBody(401, "Unauthorized", "Valid API key required."),
          checked |-> NotChecked]
    ELSE IF filename = ""
    THEN [passed |-> FALSE,
          res |-> ErrorBody(400, "Bad Request", "Filename required."),
          checked |-> NotChecked]
    ELSE LET operation == OperationOf(method)
             allowed   == hasPermission(apiKey.s, filename, operation)
             chk == [reached |-> TRUE, operation |-> operation, allowed |-> allowed]
         IN IF ~allowed
            THEN [passed |-> FALSE,
                  res |-> ErrorBody(403, "Forbidden", "Your API key cannot ${operation} ${filename}."),
                  checked |-> chk]
            ELSE [passed |-> TRUE, res |-> NoResponse, checked |-> chk]

\* Preflight, authentication, route parsing and the permission check.
\* apiKey is the header value (Undefined when the header is absent),
\* filename is "" when the route has none.
\* a gate that records a refusal by the permission check and lets the
\* request through to its method branch
Gate_RefusalNotEnforced(method, apiKey, filename, vk) ==
    IF method = "OPTIONS"
    THEN [passed |-> FALSE, res |-> Preflight204, checked |-> NotChecked]
    ELSE IF Falsy(apiKey) \/ apiKey.s \notin vk
    THEN [passed |-> FALSE,
          res |-> ErrorBody(401, "Unauthorized", "Valid API key required."),
          checked |-> NotChecked]
    ELSE IF filename = ""
    THEN [passed |-> FALSE,
          res |-> ErrorBody(400, "Bad Request", "Filename required."),
          checked |-> NotChecked]
    ELSE LET operation == OperationOf(method)
             allowed   == hasPermission(apiKey.s, filename, operation)
         IN [passed |-> TRUE, res |-> NoResponse,
             checked |-> [reached |-> TRUE, operation |-> operation,
                          allowed |-> allowed]]

Gate(method, apiKey, filename, vk) ==
    IF method = "OPTIONS"
    THEN [passed |-> FALSE, res |-> Preflight204, checked |-> NotChecked]
    ELSE IF Falsy(apiKey) \/ apiKey.s \notin vk
    THEN [passed |-> FALSE,
          res |-> ErrorBody(401, "Unauthorized", "Valid API key required."),
          checked |-> NotChecked]
    ELSE IF filename = ""
    THEN [passed |-> FALSE,
          res |-> ErrorBody(400, "Bad Request", "Filename required."),
          checked |-> NotChecked]
    ELSE LET operation == OperationOf(method)
             allowed   == hasPermission(apiKey.s, filename, operation)
             chk == [reached |-> TRUE, operation |-> operation, allowed |-> allowed]
         IN IF ~allowed
            THEN [passed |-> FALSE,
                  res |-> ErrorBody(403, "Forbidden", "Your API key cannot ${operation} ${filename}."),
                  checked |-> chk]
            ELSE [passed |-> TRUE, res |-> NoResponse, checked |-> chk]

\* what a method branch leaves behind: the response, the store and the
\* store accesses it made
Outcome(res, st, io) == [res |-> res, store |-> st, io |-> io]

DoGet(st, filename, recordId) ==
    LET data == getBlob(st, filename)
        io   == <<<<"read", filename>>>>
    IN IF data.t = "null"
       THEN Outcome(ErrorBody(404, "Not Found", "${filename} not found."), st, io)
       ELSE IF ~Falsy(recordId) /\ data.t = "array"
       THEN LET found == FindIndex(data.a, recordId)
            IN IF found.threw THEN Outcome(ServerError(NullItemError), st, io)
               ELSE IF found.index = 0
               THEN Outcome(ErrorBody(404, "Not Found", "Record ${recordId} not found."), st, io)
               ELSE Outcome(RecordBody(200, data.a[found.index].o), st, io)
       ELSE Outcome(DocumentBody(200, data), st, io)

\* a new record that also carries an update stamp
NewRecord_Stamped(newData, apiKey, ms, rnd) ==
    [Spread(EmptyObj, newData) EXCEPT
        !["id"] = IF ~Falsy(Read(newData, "id")) THEN Read(newData, "id")
                  ELSE Str(generateId(ms, rnd)),
        !["createdAt"] = Str(toISOString(ms)),
        !["createdBy"] = getRoleFromKey(apiKey.s),
        !["updatedAt"] = Str(toISOString(ms))]

\* the record a POST appends
NewRecord(newData, apiKey, ms, rnd) ==
    [Spread(EmptyObj, newData) EXCEPT
        !["id"] = IF ~Falsy(Read(newData, "id")) THEN Read(newData, "id")
                  ELSE Str(generateId(ms, rnd)),
        !["createdAt"] = Str(toISOString(ms)),
        !["createdBy"] = getRoleFromKey(apiKey.s)]

\* an append that overwrites a stored record carrying the new record's id
DoPost_ReplacesSameId(st, filename, newData, apiKey, ms, rnd) ==
    IF newData.t \in {"undefined", "null"}
    THEN Outcome(ErrorBody(400, "Bad Request", "Request body required."), st, <<>>)
    ELSE LET loaded == getBlob(st, filename)
             existingData == IF loaded.t = "null" THEN ArrayDoc(<<>>) ELSE loaded
         IN IF newData.t = "object" /\ existingData.t = "array"
            THEN LET record == NewRecord(newData.o, apiKey, ms, rnd)
                     same == {i \in 1..Len(existingData.a) :
                                /\ existingData.a[i].t = "object"
                                /\ existingData.a[i].o["id"] = record["id"]}
                     pushed == IF same = {}
                               THEN ArrayDoc(Append(existingData.a, ObjItem(record)))
                               ELSE ArrayDoc([i \in 1..Len(existingData.a) |->
                                                IF i \in same THEN ObjItem(record)
                                                ELSE existingData.a[i]])
                 IN Outcome(ResultBody(201, "true", "Record created.",
                                       [t |-> "object", o |-> JsonObj(record)]),
                            saveBlob(st, filename, pushed),
                            <<<<"read", filename>>, <<"write", filename>>>>)
            ELSE Outcome(ResultBody(201, "true", "File saved.", NoRecord),
                         saveBlob(st, filename, newData),
                         IF newData.t = "object"
                         THEN <<<<"read", filename>>, <<"write", filename>>>>
                         ELSE <<<<"write", filename>>>>)

DoPost(st, filename, newData, apiKey, ms, rnd) ==
    IF newData.t \in {"undefined", "null"}
    THEN Outcome(ErrorBody(400, "Bad Request", "Request body required."), st, <<>>)
    ELSE LET loaded == getBlob(st, filename)
             existingData == IF loaded.t = "null" THEN ArrayDoc(<<>>) ELSE loaded
         IN IF newData.t = "object" /\ existingData.t = "array"
            THEN LET record == NewRecord(newData.o, apiKey, ms, rnd)
                     pushed == ArrayDoc(Append(existingData.a, ObjItem(record)))
                 IN Outcome(ResultBody(201, "true", "Record created.",
                                       [t |-> "object", o |-> JsonObj(record)]),
                            saveBlob(st, filename, pushed),
                            <<<<"read", filename>>, <<"write", filename>>>>)
            ELSE Outcome(ResultBody(201, "true", "File saved.", NoRecord),
                         saveBlob(st, filename, newData),
                         IF newData.t = "object"
                         THEN <<<<"read", filename>>, <<"write", filename>>>>
                         ELSE <<<<"write", filename>>>>)

\* a merge that leaves out the spread of the existing record
MergedRecord_BodyOnly(existing, updateData, apiKey, ms) ==
    [Spread(EmptyObj, updateData) EXCEPT
        !["id"] = Read(existing, "id"),
        !["createdAt"] = Read(existing, "createdAt"),
        !["updatedAt"] = Str(toISOString(ms)),
        !["updatedBy"] = getRoleFromKey(apiKey.s)]

\* a merge in which the values of the existing record win
MergedRecord_ExistingWins(existing, updateData, apiKey, ms) ==
    [Spread(updateData, existing) EXCEPT
        !["id"] = Read(existing, "id"),
        !["createdAt"] = Read(existing, "createdAt"),
        !["updatedAt"] = Str(toISOString(ms)),
        !["updatedBy"] = getRoleFromKey(apiKey.s)]

\* the record a PUT by id stores in place of the existing one
MergedRecord(existing, updateData, apiKey, ms) ==
    [Spread(existing, updateData) EXCEPT
        !["id"] = Read(existing, "id"),
        !["createdAt"] = Read(existing, "createdAt"),
        !["updatedAt"] = Str(toISOString(ms)),
        !["updatedBy"] = getRoleFromKey(apiKey.s)]

\* a record update that loads the document again after saving it
DoPut_ReadsBack(st, filename, recordId, body, apiKey, ms) ==
    IF Falsy(recordId)
    THEN IF saveBlobThrows(body)
         THEN Outcome(ServerError(UploadError), st, <<>>)
         ELSE Outcome(ResultBody(200, "true", "File replaced", NoRecord),
                      saveBlob(st, filename, body), <<<<"write", filename>>>>)
    ELSE LET existingData == getBlob(st, filename)
             io == <<<<"read", filename>>>>
         IN IF existingData.t # "array"
            THEN Outcome(ErrorBody(400, "Bad Request", "File is not an array."), st, io)
            ELSE LET found == FindIndex(existingData.a, recordId)
                 IN IF found.threw THEN Outcome(ServerError(NullItemError), st, io)
                    ELSE IF found.index = 0
                    THEN Outcome(ErrorBody(404, "Not Found", "Record ${recordId} not found."), st, io)
                    ELSE LET merged == MergedRecord(existingData.a[found.index].o,
                                                    body.o, apiKey, ms)
                             updated == ArrayDoc([existingData.a EXCEPT
                                                    ![found.index] = ObjItem(merged)])
                             saved == saveBlob(st, filename, updated)
                             stored == getBlob(saved, filename)
                         IN Outcome(ResultBody(200, "true", "Record updated.",
                                               [t |-> "object",
                                                o |-> stored.a[found.index].o]),
                                    saved,
                                    io \o <<<<"write", filename>>, <<"read", filename>>>>)

DoPut(st, filename, recordId, body, apiKey, ms) ==
    IF Falsy(recordId)
    THEN IF saveBlobThrows(body)
         THEN Outcome(ServerError(UploadError), st, <<>>)
         ELSE Outcome(ResultBody(200, "true", "File replaced", NoRecord),
                      saveBlob(st, filename, body), <<<<"write", filename>>>>)
    ELSE LET existingData == getBlob(st, filename)
             io == <<<<"read", filename>>>>
         IN IF existingData.t # "array"
            THEN Outcome(ErrorBody(400, "Bad Request", "File is not an array."), st, io)
            ELSE LET found == FindIndex(existingData.a, recordId)
                 IN IF found.threw THEN Outcome(ServerError(NullItemError), st, io)
                    ELSE IF found.index = 0
                    THEN Outcome(ErrorBody(404, "Not Found", "Record ${recordId} not found."), st, io)
                    ELSE LET merged == MergedRecord(existingData.a[found.index].o,
                                                    body.o, apiKey, ms)
                             updated == ArrayDoc([existingData.a EXCEPT
                                                    ![found.index] = ObjItem(merged)])
                         IN Outcome(ResultBody(200, "true", "Record updated.",
                                               [t |-> "object", o |-> JsonObj(merged)]),
                                    saveBlob(st, filename, updated),
                                    Append(io, <<"write", filename>>))

DoDelete(st, filename, recordId) ==
    IF ~Falsy(recordId)
    THEN LET existingData == getBlob(st, filename)
             io == <<<<"read", filename>>>>
         IN IF existingData.t # "array"
            THEN Outcome(ErrorBody(400, "Bad Request", "Cannot delete record from non-array."), st, io)
            ELSE LET filtered == FilterOut(existingData.a, recordId)
                 IN IF filtered.threw THEN Outcome(ServerError(NullItemError), st, io)
                    ELSE IF Len(filtered.kept) = Len(existingData.a)
                    THEN Outcome(ErrorBody(404, "Not Found", "Record ${recordId} not found."), st, io)
                    ELSE Outcome(ResultBody(200, "true", "Record deleted.", NoRecord),
                                 saveBlob(st, filename, ArrayDoc(filtered.kept)),
                                 Append(io, <<"write", filename>>))
    ELSE IF deleteBlobExists(st, filename)
         THEN Outcome(ResultBody(200, "true", "File deleted.", NoRecord),
                      deleteBlob(st, filename), <<<<"delete", filename>>>>)
         ELSE Outcome(ResultBody(404, "false", "File not found.", NoRecord), st,
                      <<<<"delete", filename>>>>)

(* ------------------------------ UserStore ------------------------------ *)

UpperCase ==
    <<"A", "B", "C", "D", "E", "F", "G", "H", "I", "J", "K", "L", "M",
      "N", "O", "P", "Q", "R", "S", "T", "U", "V", "W", "X", "Y", "Z">>

LowerCase ==
    <<"a", "b", "c", "d", "e", "f", "g", "h", "i", "j", "k", "l", "m",
      "n", "o", "p", "q", "r", "s", "t", "u", "v", "w", "x", "y", "z">>

\* String.prototype.toLowerCase, character by character
toLowerCase(s) ==
    [i \in 1..Len(s) |->
        IF \E k \in 1..Len(UpperCase) : UpperCase[k] = s[i]
        THEN LowerCase[CHOOSE k \in 1..Len(UpperCase) : UpperCase[k] = s[i]]
        ELSE s[i]]

sAdminEmail ==
    <<"a", "d", "m", "i", "n", "@", "s", "e", "s", "e", "n", "e", "r", "g", "y",
      ".", "o", "r", "g">>

sAdminDefault == <<"a", "d", "m", "i", "n", "-", "d", "e", "f", "a", "u", "l", "t">>

sActive == <<"a", "c", "t", "i", "v", "e">>

\* a user: the fields the store's own logic reads or writes
User(id, email, status) == [id |-> id, email |-> email, status |-> status]

\* the account init puts in front of a list that has none with this email
DefaultAdmin == User(Str(sAdminDefault), Str(sAdminEmail), Str(sActive))

\* this.users.find(u => u.email.toLowerCase() === email.toLowerCase()):
\* the place of the first such user, 0 for undefined
findByEmail(list, email) ==
    LET hits == {i \in 1..Len(list) :
                    toLowerCase(list[i].email.s) = toLowerCase(email.s)}
    IN IF hits = {} THEN 0 ELSE CHOOSE i \in hits : \A j \in hits : i <= j

\* this.users.findIndex(u => u.id === id): 1-based, 0 for -1
findUserIndex(list, id) ==
    LET hits == {i \in 1..Len(list) : list[i].id = id}
    IN IF hits = {} THEN 0 ELSE CHOOSE i \in hits : \A j \in hits : i <= j

\* { id: 'user-' + Date.now(), ...userData, status: 'active', createdAt }
NewUser(userData, ms) ==
    User(IF userData.id.t # "absent" THEN userData.id
         ELSE Str(<<"u", "s", "e", "r", "-">> \o Digits(ms)),
         userData.email,
         Str(sActive))

\* { ...user, ...updates }
UpdatedUser(user, updates) ==
    [f \in DOMAIN user |-> IF updates[f].t # "absent" THEN updates[f] ELSE user[f]]

(* -------------------------------- state -------------------------------- *)

VARIABLES
    validKeys,  \* process.env.VALID_API_KEYS, split on ',' and trimmed
    store,      \* the blob container: document name -> stored JSON
    now,        \* the clock (Date.now(), milliseconds)
    req,        \* the request handled last
    res,        \* context.res after the handler returned
    checked,    \* the permission check the handler made, if it got that far
    io,         \* the store accesses the handler made, in order
    fault,      \* which of those accesses threw (NoFault: none did)
    inflight,   \* the invocations suspended between their read and write
    database,     \* the reconciler's in-memory database { data, hourly }
    monthlyData,  \* the records of temp/fetched-lmp-data.json
    hourlyData,   \* the content of temp/fetched-lmp-hourly.json
    mStats,       \* what mergeMonthlyData returned last
    hStats,       \* what mergeHourlyData returned last
    applied,      \* how often the merge has been applied to the database
    remote,       \* lmp-database.json behind the gateway, as the reconciler sees it
    pc,           \* the reconciler's position in main
    calls,        \* the gateway requests the run has issued, in order
    exitCode,     \* the exit code of the run, "" while it has not ended
    dbFile,       \* data/lmp-database.json of the file-based updater
    fetched,      \* the records the file-based updater loaded
    fileStats,    \* the file-based updater's summary counts
    users,        \* UserStore.users
    userError,    \* the message of the Error the last UserStore call threw, "" for none
    userClock,    \* Date.now() at the last UserStore call
    userCalls     \* how many UserStore calls have been made

gatewayVars == <<validKeys, store, now, req, res, checked, io, fault, inflight>>

mergeVars == <<database, monthlyData, hourlyData, mStats, hStats, applied>>

runVars == <<remote, pc, calls, exitCode>>

fileVars == <<dbFile, fetched, fileStats>>

userVars == <<users, userError, userClock, userCalls>>

vars == <<gatewayVars, mergeVars, runVars, fileVars, userVars>>

Request(method, apiKey, filename, recordId, body) ==
    [method |-> method, key |-> apiKey, filename |-> filename,
     id |-> recordId, body |-> body]

NoRequest == Request("", Undefined, "", Undefined, UndefinedDoc)

\* the invocations that can be in progress at once
Slots == 1..MaxInflight

\* An invocation: pc is "idle" before it starts, "loaded" while it waits
\* between its getBlob and its saveBlob, "done" when it has returned;
\* snapshot is the content getBlob found, res the response it returned.
Idle ==
    [pc |-> "idle", req |-> NoRequest, snapshot |-> AbsentDoc,
     rnd |-> <<>>, res |-> NoResponse]

NoFault == 0

\* error.message of the exception a rejected storage call carries
StoreErrorMessage == "The storage request failed"

\* the k-th store call of the handler is reached and throws
Throws(out, k) == k # NoFault /\ k <= Len(out.io)

\* a throwing store call that is not caught: context.res stays unassigned
Thrown_Uncaught(out, st, k) ==
    IF ~Throws(out, k) THEN out
    ELSE Outcome(NoResponse,
                 IF \E i \in 1..(k - 1) : out.io[i][1] \in {"write", "delete"}
                 THEN out.store ELSE st,
                 SubSeq(out.io, 1, k))

\* What the handler leaves behind when its k-th store call throws, out being
\* what it leaves behind when none does: the calls before the k-th have
\* taken effect, the k-th has none, and the catch block answers 500 with
\* the exception's message.
Thrown(out, st, k) ==
    IF ~Throws(out, k) THEN out
    ELSE Outcome(ServerError(StoreErrorMessage),
                 IF \E i \in 1..(k - 1) : out.io[i][1] \in {"write", "delete"}
                 THEN out.store ELSE st,
                 SubSeq(out.io, 1, k))

\* module.exports on the store st at time ms with the valid-key list vk,
\* no store call throwing: the verdict of the entry checks and what the
\* invocation leaves behind
Invocation(st, vk, ms, method, apiKey, filename, recordId, body, rnd) ==
    LET g == Gate(method, apiKey, filename, vk)
    IN [g  |-> g,
        ok |-> IF ~g.passed THEN Outcome(g.res, st, <<>>)
               ELSE IF method = "GET" THEN DoGet(st, filename, recordId)
               ELSE IF method = "POST"
               THEN DoPost(st, filename, body, apiKey, ms, rnd)
               ELSE IF method = "PUT"
               THEN DoPut(st, filename, recordId, body, apiKey, ms)
               ELSE IF method = "DELETE" THEN DoDelete(st, filename, recordId)
               ELSE Outcome(NoResponse, st, <<>>)]

\* module.exports: one invocation of the function, from the preflight test
\* to the return, in which the k-th store call (if any) throws
Serve(method, apiKey, filename, recordId, body, rnd, k) ==
    /\ now <= MaxRequests
    /\ LET inv == Invocation(store, validKeys, now, method, apiKey, filename,
                             recordId, body, rnd)
           g   == inv.g
           ok  == inv.ok
           out == Thrown(ok, store, k)
       IN /\ req' = Request(method, apiKey, filename, recordId, body)
          /\ res' = out.res
          /\ store' = out.store
          /\ io' = out.io
          /\ checked' = g.checked
          /\ fault' = IF Throws(ok, k) THEN k ELSE NoFault
    /\ now' = now + 1
    /\ UNCHANGED <<validKeys, inflight, mergeVars, runVars, fileVars, userVars>>

\* an invocation in which no store call throws
Handle(method, apiKey, filename, recordId, body, rnd) ==
    Serve(method, apiKey, filename, recordId, body, rnd, NoFault)

Options(apiKey, filename, recordId) ==
    Handle("OPTIONS", apiKey, filename, recordId, UndefinedDoc, <<>>)

Get(apiKey, filename, recordId) ==
    Handle("GET", apiKey, filename, recordId, UndefinedDoc, <<>>)

Post(apiKey, filename, body, rnd) ==
    Handle("POST", apiKey, filename, Undefined, body, rnd)

\* A body spread into a record is an object, an empty array or no body.
Put(apiKey, filename, recordId, body) ==
    /\ Falsy(recordId) \/ body.t # "array" \/ body.a = <<>>
    /\ Handle("PUT", apiKey, filename, recordId, body, <<>>)

Delete(apiKey, filename, recordId) ==
    Handle("DELETE", apiKey, filename, recordId, UndefinedDoc, <<>>)

\* a method no branch of the handler tests for
Unhandled(method, apiKey, filename, recordId) ==
    /\ method \in {"PATCH", "HEAD"}
    /\ Handle(method, apiKey, filename, recordId, UndefinedDoc, <<>>)

(* ----------------- the merge reconciler: monthly merge ----------------- *)

(***************************************************************************)
(* src/scripts/api-key-setup.js, the LMP Database Updater for Azure.       *)
(* Prices are integers counting 0.00001 $/MWh, so that the 0.0001          *)
(* tolerance is Epsilon units.  A numeric field that a record lacks is 0   *)
(* and a string field that it lacks is the empty string: every read of     *)
(* such a field in the script is of the form (x || fallback).              *)
(***************************************************************************)

\* the tolerance 0.0001 of the price comparison
Epsilon == 10

\* `${v}` and v.toString() of a string or a number
ToText(v) == v.s

\* s.padStart(2, '0')
padStart2(s) ==
    IF Len(s) = 0 THEN <<"0", "0">>
    ELSE IF Len(s) = 1 THEN <<"0">> \o s
    ELSE s

Abs(x) == IF x < 0 THEN -x ELSE x

\* a || b for numbers
OrNumber(a, b) == IF a # 0 THEN a ELSE b

\* a || b for strings
OrString(a, b) == IF a # <<>> THEN a ELSE b

monthlyKey(r) ==
    r.iso \o <<"_">> \o r.zone \o <<"_">> \o ToText(r.year)
          \o <<"_">> \o ToText(r.month)

\* the record mergeMonthlyData stores for an incoming record
Normalized(record) ==
    [iso          |-> record.iso,
     zone         |-> record.zone,
     zone_id      |-> OrString(record.zone_id, record.zone),
     year         |-> Str(ToText(record.year)),
     month        |-> Str(padStart2(ToText(record.month))),
     avg_da_lmp   |-> OrNumber(record.avg_da_lmp, record.lmp),
     min_price    |-> OrNumber(record.min_price, record.avg_da_lmp),
     max_price    |-> OrNumber(record.max_price, record.avg_da_lmp),
     record_count |-> record.record_count]

\* list.findIndex(r => monthlyKey(r) === key): 1-based, 0 for none
FindKey(list, key) ==
    LET hits == {i \in 1..Len(list) : monthlyKey(list[i]) = key}
    IN IF hits = {} THEN 0 ELSE CHOOSE i \in hits : \A j \in hits : i <= j

\* the characters of the model's strings in collation order
CollationOrder ==
    <<"_", "-", "0", "1", "2", "3", "4", "5", "6", "7", "8", "9",
      "A", "B", "C", "E", "G", "I", "J", "M", "N", "O", "P", "S">>

CollationRank(c) == CHOOSE i \in 1..Len(CollationOrder) : CollationOrder[i] = c

\* s.localeCompare(t) as -1, 0 or 1
localeCompare(s, t) ==
    LET RECURSIVE at(_)
        at(i) ==
            IF i > Len(s) /\ i > Len(t) THEN 0
            ELSE IF i > Len(s) THEN -1
            ELSE IF i > Len(t) THEN 1
            ELSE IF s[i] = t[i] THEN at(i + 1)
            ELSE IF CollationRank(s[i]) < CollationRank(t[i]) THEN -1 ELSE 1
    IN at(1)

\* a comparator that looks at the zone only
CompareRecords_ZoneOnly(a, b) == localeCompare(a.zone, b.zone)

\* the comparator of the sort: zone, then year, then month
CompareRecords(a, b) ==
    LET byZone  == localeCompare(a.zone, b.zone)
        byYear  == localeCompare(ToText(a.year), ToText(b.year))
        byMonth == localeCompare(ToText(a.month), ToText(b.month))
    IN IF byZone # 0 THEN byZone
       ELSE IF byYear # 0 THEN byYear
       ELSE byMonth

\* list.sort(CompareRecords): the sort is stable
SortRecords(list) ==
    LET insert(sorted, r) ==
            LET before == {i \in 1..Len(sorted) : CompareRecords(sorted[i], r) <= 0}
                k == IF before = {} THEN 0
                     ELSE CHOOSE i \in before : \A j \in before : j <= i
            IN SubSeq(sorted, 1, k) \o <<r>> \o SubSeq(sorted, k + 1, Len(sorted))
        RECURSIVE go(_, _)
        go(i, sorted) ==
            IF i > Len(list) THEN sorted ELSE go(i + 1, insert(sorted, list[i]))
    IN go(1, <<>>)

NoMonthlyStats == [added |-> 0, updated |-> 0, unchanged |-> 0]

\* the zero-price guard: the incoming price is zero and the existing
\* record's price is greater than zero
ZeroGuard(normalized, existing) ==
    normalized.avg_da_lmp = 0 /\ existing.avg_da_lmp > 0

\* the loop over newRecords
RECURSIVE MergeRecords(_, _, _)
MergeRecords(data, newRecords, stats) ==
    IF newRecords = <<>> THEN [data |-> data, stats |-> stats]
    ELSE LET record     == Head(newRecords)
             iso        == record.iso
             d          == IF iso \in DOMAIN data THEN data ELSE data @@ (iso :> <<>>)
             idx        == FindKey(d[iso], monthlyKey(record))
             normalized == Normalized(record)
         IN IF idx > 0 /\ ZeroGuard(normalized, d[iso][idx])
            THEN MergeRecords(d, Tail(newRecords),
                              [stats EXCEPT !.unchanged = @ + 1])
            ELSE IF idx = 0
            THEN MergeRecords([d EXCEPT ![iso] = Append(@, normalized)],
                              Tail(newRecords), [stats EXCEPT !.added = @ + 1])
            ELSE IF Abs(d[iso][idx].avg_da_lmp - normalized.avg_da_lmp) > Epsilon
            THEN MergeRecords([d EXCEPT ![iso][idx] = normalized],
                              Tail(newRecords), [stats EXCEPT !.updated = @ + 1])
            ELSE MergeRecords(d, Tail(newRecords),
                              [stats EXCEPT !.unchanged = @ + 1])

\* mergeMonthlyData: the database it leaves and the counts it returns
mergeMonthlyData(db, newRecords) ==
    LET merged == MergeRecords(db.data, newRecords, NoMonthlyStats)
    IN [database |-> [db EXCEPT !.data =
                         [iso \in DOMAIN merged.data |-> SortRecords(merged.data[iso])]],
        stats    |-> merged.stats]

(* ----------------- the merge reconciler: hourly merge ------------------ *)

(***************************************************************************)
(* database.hourly and the payload's data map an ISO to a map from         *)
(* year-month to a block, an array of { h, p } records.  A database        *)
(* without an hourly property is the database whose hourly map is empty.   *)
(***************************************************************************)

NoHourlyStats ==
    [addedMonths |-> 0, updatedMonths |-> 0, totalRecords |-> 0, skippedMonths |-> 0]

\* the (iso, year-month) keys of an hourly map
BlockKeys(h) == UNION {{<<iso, ym>> : ym \in DOMAIN h[iso]} : iso \in DOMAIN h}

\* records.some(r => r.p !== 0)
hasNonZero(records) == \E i \in 1..Len(records) : records[i].p # 0

\* a test that lets an all-zero block through
Replaces_AnyBlock(records) == Len(records) > 0

\* the block passes both continue statements: it is not empty and not all
\* of its prices are zero
Replaces(records) == Len(records) > 0 /\ hasNonZero(records)

\* a store that appends the incoming records to the block it finds
StoredBlock_Appended(h, iso, ym, records) ==
    IF iso \in DOMAIN h /\ ym \in DOMAIN h[iso] THEN h[iso][ym] \o records
    ELSE records

\* database.hourly[iso][yearMonth] = records
StoredBlock(h, iso, ym, records) == records

\* the sum of f over a finite set
RECURSIVE SumOver(_, _)
SumOver(S, f) ==
    IF S = {} THEN 0
    ELSE LET x == CHOOSE y \in S : TRUE
         IN f[x] + SumOver(S \ {x}, f)

\* mergeHourlyData: the database it leaves and the counts it returns.  Each
\* (iso, year-month) key of the payload is visited once and the visits do
\* not depend on one another, so the loops are written as maps over keys.
mergeHourlyData(db, newHourlyData) ==
    IF ~newHourlyData.exists \/ ~newHourlyData.hasData
    THEN [database |-> db, stats |-> NoHourlyStats]
    ELSE LET old      == db.hourly
             incoming == newHourlyData.data
             keys     == BlockKeys(incoming)
             nonEmpty == {k \in keys : Len(incoming[k[1]][k[2]]) > 0}
             taken    == {k \in nonEmpty : Replaces(incoming[k[1]][k[2]])}
             isNew(k) == ~(k[1] \in DOMAIN old /\ k[2] \in DOMAIN old[k[1]])
             months(iso) ==
                 (IF iso \in DOMAIN old THEN DOMAIN old[iso] ELSE {})
                 \cup {k[2] : k \in {j \in taken : j[1] = iso}}
             hourly ==
                 [iso \in DOMAIN old \cup DOMAIN incoming |->
                     [ym \in months(iso) |->
                         IF <<iso, ym>> \in taken
                         THEN StoredBlock(old, iso, ym, incoming[iso][ym])
                         ELSE old[iso][ym]]]
         IN [database |-> [db EXCEPT !.hourly = hourly],
             stats |->
                 [addedMonths   |-> Cardinality({k \in taken : isNew(k)}),
                  updatedMonths |-> Cardinality({k \in taken : ~isNew(k)}),
                  totalRecords  |-> SumOver(taken,
                                        [k \in taken |-> Len(incoming[k[1]][k[2]])]),
                  skippedMonths |-> Cardinality(nonEmpty \ taken)]]

\* countRecords
countRecords(db) ==
    [monthly |-> SumOver(DOMAIN db.data, [iso \in DOMAIN db.data |-> Len(db.data[iso])]),
     hourly  |-> SumOver(BlockKeys(db.hourly),
                         [k \in BlockKeys(db.hourly) |-> Len(db.hourly[k[1]][k[2]])])]

(* --------------------- the merge reconciler: main ---------------------- *)

EmptyMap == [k \in {} |-> <<>>]

NoMeta == [hasHourlyData |-> FALSE, totalMonthlyRecords |-> 0, totalHourlyRecords |-> 0]

\* { meta: {}, data: {}, hourly: {} }
NewDatabase == [meta |-> NoMeta, data |-> EmptyMap, hourly |-> EmptyMap]

\* the remote document: missing, or a database with or without a data
\* property
NoRemote == [exists |-> FALSE, hasData |-> FALSE, db |-> NewDatabase]

RemoteDoc(db) == [exists |-> TRUE, hasData |-> TRUE, db |-> db]

\* temp files
NoMonthlyFile == [exists |-> FALSE, records |-> <<>>]

MonthlyFile(records) == [exists |-> TRUE, records |-> records]

NoHourlyFile == [exists |-> FALSE, hasData |-> FALSE, data |-> EmptyMap]

HourlyFile(data) == [exists |-> TRUE, hasData |-> TRUE, data |-> data]

\* the counts written to database.meta (the timestamp and the constant
\* fields of meta are left out)
MetaOf(db) ==
    LET finalStats == countRecords(db)
    IN [hasHourlyData       |-> finalStats.hourly > 0,
        totalMonthlyRecords |-> finalStats.monthly,
        totalHourlyRecords  |-> finalStats.hourly]

\* a save that does not depend on the counts
hasChanges_Always(m, h) == TRUE

hasChanges(m, h) ==
    m.added > 0 \/ m.updated > 0 \/ h.addedMonths > 0 \/ h.updatedMonths > 0

\* The database main works on after apiRequest('GET') settled: the loaded
\* document if it has a data property; a new database when the answer was
\* 404 or had no data, and also when the request was rejected (the catch
\* block).  main does not abort here.
Fetched(doc, outcome) ==
    IF outcome = "ok" /\ doc.hasData THEN doc.db ELSE NewDatabase

\* main up to the first await: the API key and the monthly temp file are
\* required
Start(keySet) ==
    /\ pc = "start"
    /\ IF keySet /\ monthlyData.exists
       THEN pc' = "fetch" /\ UNCHANGED exitCode
       ELSE pc' = "exited" /\ exitCode' = "1"
    /\ UNCHANGED <<gatewayVars, mergeVars, fileVars, remote, calls, userVars>>

\* apiRequest('GET', LMP_FILE) settles: 2xx, 404, or a rejection (another
\* status, a socket error, the 120 s timeout)
Fetch(outcome) ==
    /\ pc = "fetch"
    /\ outcome \in {"ok", "notfound", "error"}
    /\ outcome = "ok" => remote.exists
    /\ outcome = "notfound" => ~remote.exists
    /\ calls' = Append(calls, <<"GET", outcome>>)
    /\ database' = Fetched(remote, outcome)
    /\ pc' = "mergeMonthly"
    /\ UNCHANGED <<gatewayVars, fileVars, remote, exitCode, userVars>>
    /\ UNCHANGED <<monthlyData, hourlyData, mStats, hStats, applied>>

MergeMonthly ==
    /\ pc = "mergeMonthly"
    /\ LET m == mergeMonthlyData(database, monthlyData.records)
       IN database' = m.database /\ mStats' = m.stats
    /\ applied' = applied + 1
    /\ pc' = "mergeHourly"
    /\ UNCHANGED <<gatewayVars, fileVars, remote, calls, exitCode, userVars>>
    /\ UNCHANGED <<monthlyData, hourlyData, hStats>>

\* the hourly merge (when there is an hourly file), the metadata and the
\* decision to save
MergeHourly ==
    /\ pc = "mergeHourly"
    /\ LET h  == IF hourlyData.exists THEN mergeHourlyData(database, hourlyData)
                 ELSE [database |-> database, stats |-> NoHourlyStats]
       IN /\ database' = [h.database EXCEPT !.meta = MetaOf(h.database)]
          /\ hStats' = h.stats
          /\ pc' = IF hasChanges(mStats, h.stats) THEN "save" ELSE "cleanup"
    /\ applied' = applied + 1
    /\ UNCHANGED <<gatewayVars, fileVars, remote, calls, exitCode, userVars>>
    /\ UNCHANGED <<monthlyData, hourlyData, mStats>>

\* apiRequest('PUT', LMP_FILE, database) settles; a rejected request has
\* not replaced the document
SaveDatabase(outcome) ==
    /\ pc = "save"
    /\ outcome \in {"ok", "error"}
    /\ calls' = Append(calls, <<"PUT", outcome>>)
    /\ IF outcome = "ok"
       THEN remote' = RemoteDoc(database) /\ pc' = "cleanup" /\ UNCHANGED exitCode
       ELSE pc' = "exited" /\ exitCode' = "1" /\ UNCHANGED remote
    /\ UNCHANGED <<gatewayVars, mergeVars, fileVars, userVars>>

\* the temp files are removed and main returns
Cleanup ==
    /\ pc = "cleanup"
    /\ pc' = "exited"
    /\ exitCode' = "0"
    /\ monthlyData' = NoMonthlyFile
    /\ hourlyData' = NoHourlyFile
    /\ UNCHANGED <<gatewayVars, fileVars, remote, calls, userVars>>
    /\ UNCHANGED <<database, mStats, hStats, applied>>

(* ---------------------- the file-based LMP updater --------------------- *)

(***************************************************************************)
(* src/unnamed/part_001, the LMP Database Updater that merges              *)
(* temp/fetched-lmp-data.json into data/lmp-database.json.  Its lmp        *)
(* values are integers counting 0.001 $/MWh (mills).                       *)
(***************************************************************************)

\* one cent, the tolerance 0.01 of the updater's comparison, in mills
Cent == 10

getRecordKey(record) ==
    record.iso \o <<"_">> \o record.zone \o <<"_">> \o ToText(record.year)
               \o <<"_">> \o ToText(record.month)

\* parseFloat(lmp.toFixed(2)): the nearest cent (no value of the model lies
\* halfway between two cents)
toFixed2(lmp) == IF lmp % Cent >= 5 THEN lmp - (lmp % Cent) + Cent ELSE lmp - (lmp % Cent)

\* normalizeRecord (energy, congestion and loss are carried along and play
\* no part in the merge)
normalizeRecord(record) ==
    [iso   |-> record.iso,
     zone  |-> record.zone,
     year  |-> Str(ToText(record.year)),
     month |-> Str(ToText(record.month)),
     lmp   |-> toFixed2(record.lmp)]

\* The pairs of cent values one cent apart whose difference in IEEE double
\* arithmetic is greater than 0.01: 42.02 - 42.01 = 0.010000000000005116,
\* whereas 0.03 - 0.02 = 0.009999999999999998 and
\* 42.01 - 42.00 = 0.00999999999999801.
CentApartAbove == {{42020, 42010}}

\* Math.abs(a - b) > 0.01
Differs(a, b) ==
    IF Abs(a - b) = Cent THEN {a, b} \in CentApartAbove ELSE Abs(a - b) > Cent

NoFileStats == [added |-> 0, updated |-> 0, unchanged |-> 0]

\* a Map as the sequence of its entries in insertion order
MapIndex(map, key) ==
    LET hits == {i \in 1..Len(map) : map[i].key = key}
    IN IF hits = {} THEN 0 ELSE CHOOSE i \in hits : TRUE

\* map.set(key, value): a new key goes last, a known key keeps its place
MapSet(map, key, value) ==
    LET i == MapIndex(map, key)
    IN IF i = 0 THEN Append(map, [key |-> key, value |-> value])
       ELSE [map EXCEPT ![i].value = value]

\* existingMap after database.records.forEach
RECURSIVE ExistingMap(_, _)
ExistingMap(records, map) ==
    IF records = <<>> THEN map
    ELSE ExistingMap(Tail(records), MapSet(map, getRecordKey(Head(records)), Head(records)))

\* fetchedData.records.forEach
RECURSIVE ProcessFetched(_, _, _)
ProcessFetched(newRecords, map, stats) ==
    IF newRecords = <<>> THEN [map |-> map, stats |-> stats]
    ELSE LET normalized == normalizeRecord(Head(newRecords))
             key        == getRecordKey(normalized)
             i          == MapIndex(map, key)
         IN IF i = 0
            THEN ProcessFetched(Tail(newRecords), MapSet(map, key, normalized),
                                [stats EXCEPT !.added = @ + 1])
            ELSE IF Differs(map[i].value.lmp, normalized.lmp)
            THEN ProcessFetched(Tail(newRecords), MapSet(map, key, normalized),
                                [stats EXCEPT !.updated = @ + 1])
            ELSE ProcessFetched(Tail(newRecords), map,
                                [stats EXCEPT !.unchanged = @ + 1])

\* the comparator of the updater's sort: iso, zone, year, month
CompareFileRecords(a, b) ==
    IF a.iso # b.iso THEN localeCompare(a.iso, b.iso)
    ELSE IF a.zone # b.zone THEN localeCompare(a.zone, b.zone)
    ELSE IF a.year # b.year THEN localeCompare(ToText(a.year), ToText(b.year))
    ELSE localeCompare(ToText(a.month), ToText(b.month))

\* updatedRecords.sort(CompareFileRecords)
SortFileRecords(list) ==
    LET insert(sorted, r) ==
            LET before == {i \in 1..Len(sorted) : CompareFileRecords(sorted[i], r) <= 0}
                k == IF before = {} THEN 0
                     ELSE CHOOSE i \in before : \A j \in before : j <= i
            IN SubSeq(sorted, 1, k) \o <<r>> \o SubSeq(sorted, k + 1, Len(sorted))
        RECURSIVE go(_, _)
        go(i, sorted) ==
            IF i > Len(list) THEN sorted ELSE go(i + 1, insert(sorted, list[i]))
    IN go(1, <<>>)

NoDbFile == [exists |-> FALSE, records |-> <<>>]

DbFile(records) == [exists |-> TRUE, records |-> records]

\* main of the file-based updater, from the existence test of the fetched
\* file to the removal of the temp file
UpdateFile ==
    /\ pc = "start"
    /\ IF ~fetched.exists
       THEN /\ exitCode' = "1"
            /\ UNCHANGED <<dbFile, fetched, fileStats>>
       ELSE LET existingMap == ExistingMap(dbFile.records, <<>>)
                done        == ProcessFetched(fetched.records, existingMap, NoFileStats)
                updatedRecords ==
                    SortFileRecords([i \in 1..Len(done.map) |-> done.map[i].value])
            IN /\ dbFile' = DbFile(updatedRecords)
               /\ fileStats' = done.stats
               /\ fetched' = [exists |-> FALSE, records |-> <<>>]
               /\ exitCode' = "0"
    /\ pc' = "exited"
    /\ UNCHANGED <<gatewayVars, mergeVars, remote, calls, userVars>>

(* ------------------------------- inputs -------------------------------- *)

KeyAe       == sSes \o <<"-">> \o sAe \o <<"-", "x", "y", "z">>
KeyAdmin    == sSes \o <<"-">> \o sAdmin \o <<"-", "1">>
KeyWidget   == sSes \o <<"-">> \o sWidget \o <<"-", "1">>
KeyReadonly == sSes \o <<"-">> \o sReadonly
KeyBogus    == sSes \o <<"-">> \o sBogus \o <<"-", "1">>
KeyCtor     == sSes \o <<"-">> \o sCtor \o <<"-", "1">>
KeyNoRole   == sSes \o <<"-">>
KeySesOnly  == sSes
KeyBad      == <<"b", "a", "d", "k", "e", "y">>
KeyOtherTag == <<"x", "y", "z", "-">> \o sAe \o <<"-", "1">>
KeyUpper    == <<"S", "E", "S", "-">> \o sAe \o <<"-", "1">>

WellFormedKeys == {KeyAe, KeyAdmin, KeyWidget, KeyReadonly, KeyBogus, KeyCtor, KeyNoRole}

MalformedKeys == {<<>>, KeySesOnly, KeyBad, KeyOtherTag, KeyUpper}

\* the values VALID_API_KEYS is configured to: unset, the keys issued to
\* the roles, and a list that also names keys of any other shape
(* -------------------------- UserStore's calls --------------------------- *)

\* UserStore.create(userData) at time ms
Create(userData, ms) ==
    /\ userCalls < MaxUserCalls
    /\ userCalls' = userCalls + 1
    /\ userClock' = ms
    /\ IF findByEmail(users, userData.email) # 0
       THEN userError' = "Email already exists" /\ UNCHANGED users
       ELSE users' = Append(users, NewUser(userData, ms)) /\ userError' = ""
    /\ UNCHANGED <<gatewayVars, mergeVars, runVars, fileVars>>

\* UserStore.update(id, updates)
Update(id, updates) ==
    /\ userCalls < MaxUserCalls
    /\ userCalls' = userCalls + 1
    /\ LET index == findUserIndex(users, id)
       IN IF index = 0
          THEN userError' = "User not found" /\ UNCHANGED users
          ELSE IF /\ ~Falsy(updates.email)
                  /\ updates.email # users[index].email
                  /\ findByEmail(users, updates.email) # 0
          THEN userError' = "Email already exists" /\ UNCHANGED users
          ELSE /\ users' = [users EXCEPT ![index] = UpdatedUser(@, updates)]
               /\ userError' = ""
    /\ UNCHANGED <<gatewayVars, mergeVars, runVars, fileVars, userClock>>

\* UserStore.delete(id)
DeleteUser(id) ==
    /\ userCalls < MaxUserCalls
    /\ userCalls' = userCalls + 1
    /\ LET index == findUserIndex(users, id)
       IN IF index = 0
          THEN userError' = "User not found" /\ UNCHANGED users
          ELSE IF users[index].email = Str(sAdminEmail)
          THEN userError' = "Cannot delete default admin" /\ UNCHANGED users
          ELSE /\ users' = [i \in 1..(Len(users) - 1) |->
                              IF i < index THEN users[i] ELSE users[i + 1]]
               /\ userError' = ""
    /\ UNCHANGED <<gatewayVars, mergeVars, runVars, fileVars, userClock>>

\* UserStore has not been used
NoUsers ==
    /\ users = <<>>
    /\ userError = ""
    /\ userClock = 0
    /\ userCalls = 0

ValidKeyConfigs ==
    { {<<>>},
      {KeyAe, KeyAdmin, KeyWidget, KeyReadonly},
      WellFormedKeys \cup MalformedKeys }

sR1   == <<"r", "1">>
sR2   == <<"r", "2">>
sLoc1 == <<"l", "o", "c", "1">>
sLoc2 == <<"l", "o", "c", "2">>
sEvil == <<"e", "v", "i", "l">>

Obj(fields) == fields @@ EmptyObj

RecA == Obj([id |-> Str(sR1), name |-> Str(sLoc1),
             createdAt |-> Str(toISOString(0)), createdBy |-> Str(sAdmin)])
RecB == Obj(("_id" :> Str(sR1)) @@ [name |-> Str(sLoc2)])
RecC == Obj([profileId |-> Str(sR2), name |-> Str(sLoc1)])

\* the documents the requests of the model name
StoredDocs == {"clients.json", "energy-profiles.json", "lmp-database.json"}

NoBlobs == [f \in StoredDocs |-> AbsentDoc]

WithDocs(profiles, clients) ==
    [NoBlobs EXCEPT !["energy-profiles.json"] = profiles,
                    !["clients.json"] = clients]

\* contents of the container when the first request arrives
InitialStores ==
    { NoBlobs,
      WithDocs(ArrayDoc(<<>>), ArrayDoc(<<ObjItem(RecA)>>)),
      WithDocs(ArrayDoc(<<ObjItem(RecB), ObjItem(RecA), ObjItem(RecC)>>),
               ArrayDoc(<<ObjItem(RecA)>>)),
      WithDocs(ArrayDoc(<<ObjItem(RecC)>>), AbsentDoc),
      WithDocs(ObjectDoc(Obj([name |-> Str(sLoc1)])), ArrayDoc(<<ObjItem(RecA)>>)) }

Bodies ==
    { UndefinedDoc,
      NullDoc,
      ObjectDoc(EmptyObj),
      ObjectDoc(Obj([name |-> Str(sLoc1)])),
      ObjectDoc(Obj([id |-> Str(sR1), name |-> Str(sLoc2),
                     createdAt |-> Str(sEvil), createdBy |-> Str(sEvil)])),
      ObjectDoc(Obj([id |-> Num(<<"5">>)])),
      ArrayDoc(<<ObjItem(RecA), NullItem>>) }

\* the string a value is written as in a route
RouteSegment(v) == Str(v.s)

\* ids a client has seen in a document
IdsIn(d) ==
    IF d.t # "array" THEN {}
    ELSE {RouteSegment(d.a[i].o["id"]) :
            i \in {j \in 1..Len(d.a) : d.a[j].t = "object" /\ ~Falsy(d.a[j].o["id"])}}

RouteIds(filename) ==
    {Undefined, Str(sR1), Str(sR2)}
    \cup (IF filename \in StoredDocs THEN IdsIn(store[filename]) ELSE {})

\* no reconciler or updater run is under way
NoReconciler ==
    /\ database = NewDatabase
    /\ monthlyData = NoMonthlyFile
    /\ hourlyData = NoHourlyFile
    /\ mStats = NoMonthlyStats
    /\ hStats = NoHourlyStats
    /\ applied = 0
    /\ remote = NoRemote
    /\ pc = "idle"
    /\ calls = <<>>
    /\ exitCode = ""
    /\ dbFile = NoDbFile
    /\ fetched = [exists |-> FALSE, records |-> <<>>]
    /\ fileStats = NoFileStats

\* the gateway has handled no request
NoGateway ==
    /\ validKeys = {KeyAe, KeyAdmin, KeyWidget, KeyReadonly}
    /\ store = NoBlobs
    /\ now = 1
    /\ req = NoRequest
    /\ res = NoResponse
    /\ checked = NotChecked
    /\ io = <<>>
    /\ fault = NoFault
    /\ inflight = [p \in Slots |-> Idle]

Init ==
    /\ validKeys \in ValidKeyConfigs
    /\ store \in InitialStores
    /\ now = 1
    /\ req = Request("", Undefined, "", Undefined, UndefinedDoc)
    /\ res = NoResponse
    /\ checked = NotChecked
    /\ io = <<>>
    /\ fault = NoFault
    /\ inflight = [p \in Slots |-> Idle]
    /\ NoReconciler
    /\ NoUsers

(* --------------------- the gateway, record operations ------------------ *)

\* the keys that append and read records, and the key that also edits and
\* deletes them
CrudKeys == {Str(KeyAe), Str(KeyWidget)}

EditKey == Str(KeyAe)

CrudFile == "energy-profiles.json"

InitCrud ==
    /\ Init
    /\ validKeys = {KeyAe, KeyAdmin, KeyWidget, KeyReadonly}

Next ==
    \/ Options(EditKey, CrudFile, Undefined)
    \/ \E k \in CrudKeys, id \in RouteIds(CrudFile) : Get(k, CrudFile, id)
    \/ \E k \in CrudKeys, b \in Bodies, rnd \in RandomSuffixes : Post(k, CrudFile, b, rnd)
    \/ \E id \in RouteIds(CrudFile), b \in Bodies : Put(EditKey, CrudFile, id, b)
    \/ \E id \in RouteIds(CrudFile) : Delete(EditKey, CrudFile, id)
    \/ \E m \in {"PATCH", "HEAD"} : Unhandled(m, EditKey, CrudFile, Undefined)

Spec == InitCrud /\ [][Next]_vars

(* ------------------------ the gateway, entry gates --------------------- *)

GateKeys ==
    {Undefined} \cup
    {Str(k) : k \in {<<>>, KeyBad, KeyOtherTag, KeyAe, KeyReadonly, KeyBogus, KeyCtor}}

GateFiles == {"", "clients.json", "energy-profiles.json", "lmp-database.json"}

GateBody == ObjectDoc(Obj([name |-> Str(sLoc1)]))

InitGate ==
    /\ Init
    /\ store = WithDocs(ArrayDoc(<<>>), ArrayDoc(<<ObjItem(RecA)>>))

NextGate ==
    \E k \in GateKeys, f \in GateFiles :
        \/ Options(k, f, Undefined)
        \/ Get(k, f, Undefined)
        \/ \E rnd \in RandomSuffixes : Post(k, f, GateBody, rnd)
        \/ Put(k, f, Undefined, GateBody)
        \/ Delete(k, f, Undefined)
        \/ \E m \in {"PATCH", "HEAD"} : Unhandled(m, k, f, Undefined)

SpecGate == InitGate /\ [][NextGate]_vars

(* ---------------------- hasPermission on its own ----------------------- *)

PermKeys == WellFormedKeys \cup MalformedKeys

PermFiles == AllDocs \cup {"notes.json"}

PermOps == Operations \cup {"execute"}

InitPerm ==
    /\ validKeys = {KeyAe, KeyAdmin, KeyWidget, KeyReadonly}
    /\ store = NoBlobs
    /\ now = 1
    /\ \E k \in PermKeys, f \in PermFiles :
            req = Request("", Str(k), f, Undefined, UndefinedDoc)
    /\ res = NoResponse
    /\ checked = NotChecked
    /\ io = <<>>
    /\ fault = NoFault
    /\ inflight = [p \in Slots |-> Idle]
    /\ NoReconciler
    /\ NoUsers

\* one call hasPermission(apiKey, filename, operation)
CheckPermission(operation) ==
    /\ ~checked.reached
    /\ checked' = [reached |-> TRUE, operation |-> operation,
                   allowed |-> hasPermission(req.key.s, req.filename, operation)]
    /\ UNCHANGED <<validKeys, store, now, req, res, io, fault, inflight>>
    /\ UNCHANGED <<mergeVars, runVars, fileVars, userVars>>

NextPerm == \E operation \in PermOps : CheckPermission(operation)

SpecPerm == InitPerm /\ [][NextPerm]_vars

(* ------------------- the gateway over a failing store ------------------ *)

\* the store call that throws: none, the first or the second
FaultPoints == {NoFault, 1, 2}

FaultBodies ==
    { UndefinedDoc,
      ObjectDoc(Obj([name |-> Str(sLoc1)])),
      ArrayDoc(<<ObjItem(RecA), NullItem>>) }

FaultIds == {Undefined, Str(sR1), Str(sR2)}

InitFault ==
    /\ Init
    /\ validKeys = {KeyAe, KeyAdmin, KeyWidget, KeyReadonly}
    /\ store \in { NoBlobs,
                   WithDocs(ArrayDoc(<<ObjItem(RecB), ObjItem(RecA), ObjItem(RecC)>>),
                            ArrayDoc(<<ObjItem(RecA)>>)),
                   WithDocs(ObjectDoc(Obj([name |-> Str(sLoc1)])),
                            ArrayDoc(<<ObjItem(RecA)>>)) }

NextFault ==
    \E k \in FaultPoints :
        \/ \E key \in {EditKey, Str(KeyReadonly)}, id \in FaultIds :
              Serve("GET", key, CrudFile, id, UndefinedDoc, <<>>, k)
        \/ \E b \in FaultBodies :
              Serve("POST", EditKey, CrudFile, Undefined, b, <<"i">>, k)
        \/ \E id \in FaultIds, b \in FaultBodies :
              /\ Falsy(id) \/ b.t # "array"
              /\ Serve("PUT", EditKey, CrudFile, id, b, <<>>, k)
        \/ \E key \in {EditKey, Str(KeyReadonly)}, id \in FaultIds :
              Serve("DELETE", key, CrudFile, id, UndefinedDoc, <<>>, k)

SpecFault == InitFault /\ [][NextFault]_vars

(* ------------------ the gateway, documents and roles ------------------- *)

AccessDocs == {"users.json", "energy-profiles.json", "lmp-database.json"}

AccessKeys == {Undefined} \cup {Str(k) : k \in {KeyAdmin, KeyAe, KeyReadonly}}

AccessBody == ObjectDoc(Obj([name |-> Str(sLoc2)]))

AccessIds == {Undefined, Str(sR1)}

\* the random suffix of the ids generated in this specification
AccessSuffix == <<"i">>

InitAccess ==
    /\ validKeys = WellFormedKeys
    /\ store = [f \in AccessDocs |->
                  IF f = "users.json" THEN ArrayDoc(<<ObjItem(RecA)>>)
                  ELSE IF f = "energy-profiles.json"
                  THEN ArrayDoc(<<ObjItem(RecA), ObjItem(RecC)>>)
                  ELSE ObjectDoc(Obj([name |-> Str(sLoc1)]))]
    /\ now = 1
    /\ req = NoRequest
    /\ res = NoResponse
    /\ checked = NotChecked
    /\ io = <<>>
    /\ fault = NoFault
    /\ inflight = [p \in Slots |-> Idle]
    /\ NoReconciler
    /\ NoUsers

NextAccess ==
    \E k \in AccessKeys, f \in AccessDocs :
        \/ \E id \in AccessIds : Get(k, f, id)
        \/ Post(k, f, AccessBody, AccessSuffix)
        \/ \E id \in AccessIds : Put(k, f, id, AccessBody)
        \/ \E id \in AccessIds : Delete(k, f, id)
        \/ \E m \in {"PATCH", "HEAD"} : Unhandled(m, k, f, Undefined)

SpecAccess == InitAccess /\ [][NextAccess]_vars

(* ---------------------- the gateway, records in place ------------------ *)

\* bodies of record requests: one carrying an id that a stored record has,
\* one carrying every stamp of a record, one carrying a name only
RecordBodies ==
    { ObjectDoc(Obj([id |-> Str(sR1), name |-> Str(sLoc2)])),
      ObjectDoc(Obj([id |-> Str(sR2), name |-> Str(sLoc2),
                     createdAt |-> Str(sEvil), createdBy |-> Str(sEvil),
                     updatedAt |-> Str(sEvil), updatedBy |-> Str(sEvil)])),
      ObjectDoc(Obj([name |-> Str(sLoc2)])) }

\* the document is absent, holds three records of which two answer to r1,
\* or holds a record and a null
RecordStores ==
    { NoBlobs,
      WithDocs(ArrayDoc(<<ObjItem(RecB), ObjItem(RecA), ObjItem(RecC)>>), AbsentDoc),
      WithDocs(ArrayDoc(<<ObjItem(RecA), NullItem>>), AbsentDoc) }

InitRecord ==
    /\ validKeys = {KeyAe, KeyAdmin, KeyWidget, KeyReadonly}
    /\ store \in RecordStores
    /\ now = 1
    /\ req = NoRequest
    /\ res = NoResponse
    /\ checked = NotChecked
    /\ io = <<>>
    /\ fault = NoFault
    /\ inflight = [p \in Slots |-> Idle]
    /\ NoReconciler
    /\ NoUsers

NextRecord ==
    \/ \E b \in RecordBodies : Post(EditKey, CrudFile, b, AccessSuffix)
    \/ \E id \in {Str(sR1), Str(sR2)}, b \in RecordBodies : Put(EditKey, CrudFile, id, b)

SpecRecord == InitRecord /\ [][NextRecord]_vars

(* -------------------- two invocations, interleaved --------------------- *)

\* the record-level writes: POST of an object body, PUT by id
RecordWrite(method, recordId, body) ==
    \/ method = "POST" /\ Falsy(recordId) /\ body.t = "object"
    \/ method = "PUT" /\ ~Falsy(recordId) /\ body.t = "object"

\* invocations waiting to write
Loaded == {p \in Slots : inflight[p].pc = "loaded"}

\* the continuation of an invocation that takes the document from the
\* store again when it resumes
Resume_Reloads(st, slot, ms) ==
    LET r == slot.req
    IN IF r.method = "POST"
       THEN DoPost(st, r.filename, r.body, r.key, ms, slot.rnd)
       ELSE DoPut(st, r.filename, r.id, r.body, r.key, ms)

\* The continuation of an invocation after its await of getBlob: the method
\* branch runs on the content that getBlob returned, and its saveBlob
\* overwrites whatever the blob holds by then.
Resume(st, slot, ms) ==
    LET r    == slot.req
        seen == [st EXCEPT ![r.filename] = slot.snapshot]
        out  == IF r.method = "POST"
                THEN DoPost(seen, r.filename, r.body, r.key, ms, slot.rnd)
                ELSE DoPut(seen, r.filename, r.id, r.body, r.key, ms)
    IN IF \E i \in 1..Len(out.io) : out.io[i][1] = "write"
       THEN Outcome(out.res, [st EXCEPT ![r.filename] = out.store[r.filename]], out.io)
       ELSE Outcome(out.res, st, out.io)

\* an invocation passes the gates and its getBlob returns; it is suspended
\* before anything else runs
Load(p, method, apiKey, filename, recordId, body, rnd) ==
    /\ inflight[p].pc # "loaded"
    /\ now + Cardinality(Loaded) <= MaxRequests
    /\ RecordWrite(method, recordId, body)
    /\ Gate(method, apiKey, filename, validKeys).passed
    /\ inflight' = [inflight EXCEPT ![p] =
                       [pc |-> "loaded",
                        req |-> Request(method, apiKey, filename, recordId, body),
                        snapshot |-> store[filename],
                        rnd |-> rnd, res |-> NoResponse]]
    /\ UNCHANGED <<validKeys, store, now, req, res, checked, io, fault>>
    /\ UNCHANGED <<mergeVars, runVars, fileVars, userVars>>

\* a suspended invocation resumes and runs to its return
Save(p) ==
    /\ inflight[p].pc = "loaded"
    /\ LET r   == inflight[p].req
           out == Resume(store, inflight[p], now)
       IN /\ req' = r
          /\ res' = out.res
          /\ store' = out.store
          /\ io' = out.io
          /\ checked' = Gate(r.method, r.key, r.filename, validKeys).checked
          /\ inflight' = [inflight EXCEPT ![p].pc = "done", ![p].res = out.res]
    /\ now' = now + 1
    /\ fault' = NoFault
    /\ UNCHANGED <<validKeys, mergeVars, runVars, fileVars, userVars>>

RaceBodies ==
    { ObjectDoc(Obj([name |-> Str(sLoc1)])),
      ObjectDoc(Obj([name |-> Str(sLoc2)])) }

InitRace ==
    /\ Init
    /\ validKeys = {KeyAe, KeyAdmin, KeyWidget, KeyReadonly}
    /\ store \in { NoBlobs,
                   WithDocs(ArrayDoc(<<ObjItem(RecB), ObjItem(RecA), ObjItem(RecC)>>),
                            ArrayDoc(<<ObjItem(RecA)>>)) }

NextRace ==
    \E p \in Slots :
        \/ \E b \in RaceBodies : Load(p, "POST", EditKey, CrudFile, Undefined, b, <<"i">>)
        \/ \E id \in {Str(sR1), Str(sR2)}, b \in RaceBodies :
              Load(p, "PUT", EditKey, CrudFile, id, b, <<>>)
        \/ Save(p)

SpecRace == InitRace /\ [][NextRace]_vars

(* ------------------- mergeMonthlyData on its own ----------------------- *)

sPJM  == <<"P", "J", "M">>
sAECO == <<"A", "E", "C", "O">>
sBGE  == <<"B", "G", "E">>
s2024 == <<"2", "0", "2", "4">>
s2025 == <<"2", "0", "2", "5">>

\* a price of d $/MWh
Dollars(d) == d * 100000

\* prices: 42.0, 42.00005, 43.0 and -5.0 $/MWh
P42      == Dollars(42)
P42Close == Dollars(42) + 5
P43      == Dollars(43)
PMinus5  == 0 - Dollars(5)

\* a fetched monthly record with the price in avg_da_lmp
Monthly(zone, year, month, price) ==
    [iso |-> sPJM, zone |-> zone, zone_id |-> <<>>, year |-> year, month |-> month,
     avg_da_lmp |-> price, lmp |-> 0, min_price |-> 0, max_price |-> 0,
     record_count |-> 0]

\* a record as an earlier run stored it
Stored(zone, year, month, price) == Normalized(Monthly(zone, Str(year), Str(month), price))

IncomingRecords ==
    { Monthly(sAECO, Str(s2025), Str(<<"0", "1">>), P42),
      Monthly(sAECO, Str(s2025), Str(<<"0", "1">>), 0),
      Monthly(sAECO, Str(s2025), Str(<<"0", "1">>), P42Close),
      Monthly(sAECO, Str(s2025), Str(<<"0", "1">>), P43),
      Monthly(sAECO, Num(s2025), Num(<<"1">>), P42),
      Monthly(sBGE, Str(s2025), Str(<<"0", "2">>), PMinus5),
      Monthly(sBGE, Str(s2025), Str(<<"0", "2">>), 0),
      [Monthly(sAECO, Num(s2024), Str(<<"1", "2">>), 0) EXCEPT !.lmp = P43] }

\* the lists of at most n elements of S
ListsOver(S, n) == UNION {[1..k -> S] : k \in 0..n}

MonthlyData(db) == [db EXCEPT !.meta = MetaOf(db)]

ExistingDatabases ==
    { NewDatabase,
      MonthlyData([NewDatabase EXCEPT !.data =
          (sPJM :> <<Stored(sAECO, s2025, <<"0", "1">>, P42),
                     Stored(sBGE, s2025, <<"0", "2">>, PMinus5)>>)]),
      MonthlyData([NewDatabase EXCEPT !.data =
          (sPJM :> <<Stored(sAECO, s2025, <<"0", "1">>, 0)>>)]),
      MonthlyData([NewDatabase EXCEPT !.data =
          (sPJM :> <<Stored(sBGE, s2025, <<"0", "2">>, P42),
                     Stored(sAECO, s2025, <<"0", "1">>, P43)>>)]) }

InitMerge ==
    /\ NoGateway
    /\ NoUsers
    /\ database \in ExistingDatabases
    /\ monthlyData \in {MonthlyFile(l) : l \in ListsOver(IncomingRecords, MaxIncoming)}
    /\ hourlyData = NoHourlyFile
    /\ mStats = NoMonthlyStats
    /\ hStats = NoHourlyStats
    /\ applied = 0
    /\ remote = NoRemote
    /\ pc = "merge"
    /\ calls = <<>>
    /\ exitCode = ""
    /\ dbFile = NoDbFile
    /\ fetched = [exists |-> FALSE, records |-> <<>>]
    /\ fileStats = NoFileStats

\* one call mergeMonthlyData(database, monthlyData.records)
ApplyMonthly ==
    /\ pc = "merge"
    /\ applied < MaxApplications
    /\ LET m == mergeMonthlyData(database, monthlyData.records)
       IN database' = m.database /\ mStats' = m.stats
    /\ applied' = applied + 1
    /\ UNCHANGED <<gatewayVars, runVars, fileVars, monthlyData, hourlyData, hStats, userVars>>

NextMerge == ApplyMonthly

SpecMerge == InitMerge /\ [][NextMerge]_vars

(* -------------------- mergeHourlyData on its own ----------------------- *)

Hour(h, p) == [h |-> h, p |-> p]

BlockZero  == <<Hour(1, 0), Hour(2, 0)>>
BlockA     == <<Hour(1, P42), Hour(2, 0)>>
BlockB     == <<Hour(1, PMinus5)>>
BlockEmpty == <<>>

Blocks == {BlockZero, BlockA, BlockB, BlockEmpty}

HourlyMaps(isoSets, monthSets) ==
    UNION {[I -> UNION {[M -> Blocks] : M \in monthSets}] : I \in isoSets}

HourlyPayloads ==
    {NoHourlyFile, [exists |-> TRUE, hasData |-> FALSE, data |-> EmptyMap]}
    \cup {HourlyFile(d) :
            d \in HourlyMaps({{"ISONE"}, {"ISONE", "PJM"}},
                             {{"2025-01"}, {"2025-01", "2025-03"}})}

ExistingHourly ==
    { EmptyMap,
      ("ISONE" :> (("2025-01" :> BlockB) @@ ("2025-02" :> BlockA))),
      ("ISONE" :> ("2025-01" :> BlockEmpty)) @@ ("NYISO" :> ("2025-03" :> BlockA)) }

InitHourly ==
    /\ NoGateway
    /\ NoUsers
    /\ \E h \in ExistingHourly :
          database = MonthlyData([NewDatabase EXCEPT !.hourly = h])
    /\ monthlyData = NoMonthlyFile
    /\ hourlyData \in HourlyPayloads
    /\ mStats = NoMonthlyStats
    /\ hStats = NoHourlyStats
    /\ applied = 0
    /\ remote = NoRemote
    /\ pc = "merge"
    /\ calls = <<>>
    /\ exitCode = ""
    /\ dbFile = NoDbFile
    /\ fetched = [exists |-> FALSE, records |-> <<>>]
    /\ fileStats = NoFileStats

\* one call mergeHourlyData(database, hourlyData)
ApplyHourly ==
    /\ pc = "merge"
    /\ applied < MaxApplications
    /\ LET h == mergeHourlyData(database, hourlyData)
       IN database' = h.database /\ hStats' = h.stats
    /\ applied' = applied + 1
    /\ UNCHANGED <<gatewayVars, runVars, fileVars, monthlyData, hourlyData, mStats, userVars>>

NextHourly == ApplyHourly

SpecHourly == InitHourly /\ [][NextHourly]_vars

(* ----------------------- a run of the reconciler ----------------------- *)

RunRecords ==
    { Monthly(sAECO, Str(s2025), Str(<<"0", "1">>), P42),
      Monthly(sAECO, Str(s2025), Str(<<"0", "1">>), 0),
      Monthly(sBGE, Str(s2025), Str(<<"0", "2">>), P43),
      Monthly(sAECO, Num(s2025), Num(<<"3">>), P43) }

RunPayloads ==
    { NoHourlyFile,
      HourlyFile("ISONE" :> ("2025-01" :> BlockA)),
      HourlyFile("ISONE" :> ("2025-01" :> BlockZero)),
      HourlyFile("ISONE" :> (("2025-01" :> BlockB) @@ ("2025-03" :> BlockA))) }

RunRemotes ==
    { NoRemote,
      RemoteDoc(MonthlyData(
          [NewDatabase EXCEPT
              !.data = (sPJM :> <<Stored(sAECO, s2025, <<"0", "1">>, P42),
                                  Stored(sBGE, s2024, <<"1", "2">>, P42)>>),
              !.hourly = ("ISONE" :> (("2025-01" :> BlockA) @@ ("2025-02" :> BlockB)))])),
      RemoteDoc(MonthlyData(
          [NewDatabase EXCEPT
              !.data = (sPJM :> <<Stored(sAECO, s2025, <<"0", "1">>, P43)>>)])),
      [exists |-> TRUE, hasData |-> FALSE,
       db |-> [NewDatabase EXCEPT !.hourly = ("ISONE" :> ("2025-02" :> BlockB))]] }

InitRun ==
    /\ NoGateway
    /\ NoUsers
    /\ database = NewDatabase
    /\ monthlyData \in {NoMonthlyFile}
           \cup {MonthlyFile(l) : l \in ListsOver(RunRecords, MaxIncoming)}
    /\ hourlyData \in RunPayloads
    /\ mStats = NoMonthlyStats
    /\ hStats = NoHourlyStats
    /\ applied = 0
    /\ remote \in RunRemotes
    /\ pc = "start"
    /\ calls = <<>>
    /\ exitCode = ""
    /\ dbFile = NoDbFile
    /\ fetched = [exists |-> FALSE, records |-> <<>>]
    /\ fileStats = NoFileStats

NextRun ==
    \/ \E keySet \in BOOLEAN : Start(keySet)
    \/ \E outcome \in {"ok", "notfound", "error"} : Fetch(outcome)
    \/ MergeMonthly
    \/ MergeHourly
    \/ \E outcome \in {"ok", "error"} : SaveDatabase(outcome)
    \/ Cleanup

SpecRun == InitRun /\ [][NextRun]_vars

(* --------------------- a run of the file-based updater ----------------- *)

\* a record of the fetched file or of the database file, lmp in mills
FileRecord(zone, year, month, lmp) ==
    [iso |-> sPJM, zone |-> zone, year |-> year, month |-> month, lmp |-> lmp]

FetchedRecords ==
    { FileRecord(sAECO, Num(s2025), Num(<<"1">>), 42000),
      FileRecord(sAECO, Num(s2025), Num(<<"1">>), 42004),
      FileRecord(sAECO, Num(s2025), Num(<<"1">>), 42010),
      FileRecord(sAECO, Num(s2025), Num(<<"1">>), 42020),
      FileRecord(sBGE, Num(s2025), Num(<<"2">>), 30),
      FileRecord(sBGE, Num(s2024), Num(<<"1", "2">>), 42500) }

StoredFileRecords ==
    { FileRecord(sAECO, Str(s2025), Str(<<"1">>), 42000),
      FileRecord(sAECO, Str(s2025), Str(<<"1">>), 42010),
      FileRecord(sBGE, Str(s2025), Str(<<"2">>), 20),
      FileRecord(sBGE, Str(s2025), Str(<<"3">>), 42500) }

InitFile ==
    /\ NoGateway
    /\ NoUsers
    /\ database = NewDatabase
    /\ monthlyData = NoMonthlyFile
    /\ hourlyData = NoHourlyFile
    /\ mStats = NoMonthlyStats
    /\ hStats = NoHourlyStats
    /\ applied = 0
    /\ remote = NoRemote
    /\ pc = "start"
    /\ calls = <<>>
    /\ exitCode = ""
    /\ dbFile \in {NoDbFile} \cup {DbFile(l) : l \in ListsOver(StoredFileRecords, 2)}
    /\ fetched \in {[exists |-> FALSE, records |-> <<>>]}
           \cup {[exists |-> TRUE, records |-> l] :
                    l \in ListsOver(FetchedRecords, MaxIncoming)}
    /\ fileStats = NoFileStats

NextFile == UpdateFile

SpecFile == InitFile /\ [][NextFile]_vars

(* ------------------------------ UserStore ------------------------------ *)

sBob      == <<"b", "o", "b", "@", "x", ".", "i", "o">>
sBobUpper == <<"B", "o", "b", "@", "X", ".", "i", "o">>
sAmy      == <<"a", "m", "y", "@", "x", ".", "i", "o">>
sCarl     == <<"c", "a", "r", "l", "@", "x", ".", "i", "o">>
sU1       == <<"u", "1">>
sU2       == <<"u", "2">>
sU9       == <<"u", "9">>
sInactive == <<"i", "n", "a", "c", "t", "i", "v", "e">>

\* the lists init leaves: the default admin and the users that were loaded,
\* no two with the same email
InitialUsers ==
    { <<DefaultAdmin>>,
      <<DefaultAdmin, User(Str(sU1), Str(sBob), Str(sActive))>>,
      <<DefaultAdmin, User(Str(sU1), Str(sBob), Str(sActive)),
        User(Str(sU2), Str(sAmy), Str(sActive))>> }

\* what a caller passes to create: an email, and no id
UserData == {User(Absent, Str(e), Absent) : e \in {sBobUpper, sCarl, <<>>}}

\* what a caller passes to update: a status, or an email
UserUpdates ==
    {User(Absent, Absent, Str(sInactive))}
    \cup {User(Absent, Str(e), Absent) : e \in {sBobUpper, sCarl, <<>>}}

UserIds == {Str(sAdminDefault), Str(sU1), Str(sU2), Str(sU9)}

InitUsers ==
    /\ NoGateway
    /\ NoReconciler
    /\ users \in InitialUsers
    /\ userError = ""
    /\ userClock = 1
    /\ userCalls = 0

NextUsers ==
    \/ \E d \in UserData, ms \in {userClock, userClock + 1} : Create(d, ms)
    \/ \E id \in UserIds, u \in UserUpdates : Update(id, u)
    \/ \E id \in UserIds : DeleteUser(id)

SpecUsers == InitUsers /\ [][NextUsers]_vars

(* ------------------------------- claims -------------------------------- *)

\* key is "ses-<role>" or "ses-<role>-<anything>"
ResolvesTo(key, role) ==
    LET prefix == sSes \o <<"-">> \o role
    IN /\ Len(key) >= Len(prefix)
       /\ SubSeq(key, 1, Len(prefix)) = prefix
       /\ Len(key) = Len(prefix) \/ key[Len(prefix) + 1] = "-"

\* the table lists filename for the role of key under operation
TableAllows(key, filename, operation) ==
    \E role \in DOMAIN FILE_PERMISSIONS :
        /\ ResolvesTo(key, role)
        /\ operation \in DOMAIN FILE_PERMISSIONS[role]
        /\ filename \in FILE_PERMISSIONS[role][operation]

\* no '-' separator, or a first segment other than 'ses'
Malformed(key) ==
    LET dashes == {i \in 1..Len(key) : key[i] = "-"}
    IN \/ dashes = {}
       \/ LET first == CHOOSE i \in dashes : \A j \in dashes : i <= j
          IN SubSeq(key, 1, first - 1) # sSes

\* the request carried a key of the valid-key list
Authenticated == ~Falsy(req.key) /\ req.key.s \in validKeys

\* C1: hasPermission(key, document, operation) is true if and only if the
\* key resolves to a role of FILE_PERMISSIONS and the document is in that
\* role's list for the operation; it is false for a key with no role, a role
\* absent from the table and an operation the role has no list for.
C1_PermissionIffListed ==
    checked.reached =>
        (checked.allowed <=> TableAllows(req.key.s, req.filename, checked.operation))

C1_Witness ==
    /\ checked.reached
    /\ checked.allowed
    /\ checked.operation = "delete"
    /\ req.key = Str(KeyAe)

\* C2: a non-OPTIONS request whose x-api-key header is absent, empty or not
\* in the valid-key list is answered 401, before the filename check and
\* before the permission check.
C2_UnauthenticatedIs401 ==
    (req.method \notin {"", "OPTIONS"} /\ ~Authenticated) =>
        /\ res.status = 401
        /\ res.error = "Unauthorized"
        /\ ~checked.reached
        /\ io = <<>>

C2_Witness ==
    /\ req.method = "DELETE"
    /\ req.key = Str(KeyBogus)
    /\ req.key.s \notin validKeys
    /\ req.filename = ""
    /\ res.status = 401

\* C3 as stated: every request presenting a malformed key returns 401,
\* whatever the method, the document and the valid-key list.
C3_MalformedAlways401 ==
    (req.method # "" /\ req.key.t = "string" /\ Malformed(req.key.s)) =>
        res.status = 401

\* C3 amended: a non-OPTIONS request presenting a malformed key returns 401
\* when the key is empty or not in the valid-key list; when the list names
\* the key it returns 400 without a filename and 403 with one.  A request
\* with a malformed key never reaches the store.
C3_MalformedNeverServed ==
    (req.method \notin {"", "OPTIONS"} /\ req.key.t = "string" /\ Malformed(req.key.s)) =>
        /\ res.status = IF ~Authenticated THEN 401
                        ELSE IF req.filename = "" THEN 400 ELSE 403
        /\ io = <<>>

C3_Witness ==
    /\ req.method = "GET"
    /\ req.key = Str(KeyBad)
    /\ KeyBad \notin validKeys
    /\ req.filename = "clients.json"
    /\ res.status = 401

\* C4: for an authenticated request with a filename the operation checked is
\* read for GET, write for POST, PUT and PATCH, delete for DELETE, and the
\* answer is 403 exactly when the table denies (role, document, operation);
\* a valid 'ae' key gets 200 on GET clients.json when it exists and 403 on
\* DELETE clients.json.
C4_OperationAnd403 ==
    (req.method \in {"GET", "POST", "PUT", "PATCH", "DELETE"}
        /\ Authenticated /\ req.filename # "") =>
        /\ checked.reached
        /\ req.method = "GET" => checked.operation = "read"
        /\ req.method \in {"POST", "PUT", "PATCH"} => checked.operation = "write"
        /\ req.method = "DELETE" => checked.operation = "delete"
        /\ res.status = 403 <=> ~TableAllows(req.key.s, req.filename, checked.operation)
        /\ (req.key = Str(KeyAe) /\ req.filename = "clients.json") =>
              /\ (req.method = "GET" /\ store["clients.json"].t = "array") => res.status = 200
              /\ req.method = "DELETE" => res.status = 403

C4_Witness ==
    /\ req.method = "PATCH"
    /\ req.key = Str(KeyAe)
    /\ req.filename = "clients.json"
    /\ checked.operation = "write"
    /\ res.status = 403

\* index of the first element of a that matches recordId on one of the three
\* id fields (0 when there is none)
FirstMatch(a, recordId) ==
    LET hits == {i \in 1..Len(a) : a[i].t = "object" /\ Matches(a[i].o, recordId)}
    IN IF hits = {} THEN 0 ELSE CHOOSE i \in hits : \A j \in hits : i <= j

\* the step handles a record-level PUT that is answered 200
PutRecordOk ==
    /\ req'.method = "PUT"
    /\ ~Falsy(req'.id)
    /\ res'.status = 200

\* the record the step's PUT located, before and after
RecordBefore == store[req'.filename].a[FirstMatch(store[req'.filename].a, req'.id)].o
RecordAfter  == store'[req'.filename].a[FirstMatch(store[req'.filename].a, req'.id)].o

\* C5: over any sequence of PUT /{file}/{id} requests with arbitrary bodies
\* a record's id, createdAt and createdBy keep the values they were created
\* with.
C5_IdentityAndCreationImmutable ==
    [][PutRecordOk =>
         \A f \in {"id", "createdAt", "createdBy"} : RecordAfter[f] = RecordBefore[f]]_vars

\* C6: PUT /{file}/{id} with an empty body object changes only the record's
\* updatedAt and updatedBy, also when the record was located through _id or
\* profileId.
C6_EmptyPutTouchesOnlyUpdateStamp ==
    [][(PutRecordOk /\ req'.body = ObjectDoc(EmptyObj)) =>
         \A f \in FieldNames \ {"updatedAt", "updatedBy"} :
             RecordAfter[f] = RecordBefore[f]]_vars

C6_Witness ==
    /\ req.method = "PUT"
    /\ req.id = Str(sR2)
    /\ req.body = ObjectDoc(EmptyObj)
    /\ res.status = 200
    /\ res.record.o["profileId"] = Str(sR2)
    /\ res.record.o["id"] = Absent

\* the last step appended the record of a POST to an absent or empty array
PostedIntoEmpty ==
    /\ req.method = "POST"
    /\ req.body.t = "object"
    /\ res.status = 201
    /\ res.record.t = "object"
    /\ Len(store[req.filename].a) = 1

\* the step is GET /{file}/{returned id} by the key that posted
GetReturnedId ==
    /\ req'.method = "GET"
    /\ req'.filename = req.filename
    /\ req'.key = req.key
    /\ req'.id = RouteSegment(res.record.o["id"])

\* the posted fields plus id, createdAt and createdBy, and nothing else
RoundTripRecord ==
    /\ res'.status = 200
    /\ res'.shape = "record"
    /\ Keys(res'.record.o) = Keys(req.body.o) \cup {"id", "createdAt", "createdBy"}
    /\ \A f \in Keys(req.body.o) \ {"id", "createdAt", "createdBy"} :
           res'.record.o[f] = req.body.o[f]
    /\ res'.record.o["id"] = res.record.o["id"]
    /\ res'.record.o["createdAt"] = Str(toISOString(now - 1))
    /\ res'.record.o["createdBy"].t = "string"
    /\ ResolvesTo(req.key.s, res'.record.o["createdBy"].s)

GeneratedForm(s) ==
    \E i \in 2..(Len(s) - 1) :
        /\ s[i] = "-"
        /\ \A j \in 1..(i - 1) : s[j] \in DigitSet
        /\ \A j \in (i + 1)..Len(s) : s[j] \in AlnumSet

\* the step handles an authorized POST of an object body to a document that
\* does not exist
PostToMissing ==
    /\ req'.method = "POST"
    /\ req'.body.t = "object"
    /\ checked'.allowed
    /\ store[req'.filename].t = "absent"

C9_DeleteIsMonotonic ==
    [][(/\ req.method = "DELETE" /\ ~Falsy(req.id) /\ res.status = 200
        /\ req'.method \in {"GET", "DELETE"}
        /\ req'.filename = req.filename
        /\ req'.id = req.id
        /\ checked'.allowed)
          => res'.status = 404]_vars

\* a delete that emptied the array, with a request still to come
C9_Witness ==
    /\ req.method = "DELETE"
    /\ req.id = Str(sR2)
    /\ res.status = 200
    /\ store[req.filename] = ArrayDoc(<<>>)
    /\ now <= MaxRequests

\* indices of the elements that match recordId on any of the three fields
Matching(a, recordId) ==
    {i \in 1..Len(a) : a[i].t = "object" /\ Matches(a[i].o, recordId)}

\* C10: GET and PUT by id act on the first element whose id, _id or
\* profileId equals the route id and leave later matching elements alone;
\* DELETE by id removes every element for which any of the three fields
\* equals the route id.
C10_FirstMatchVersusAllMatch ==
    [][LET f      == req'.filename
           before == store[f].a
           after  == store'[f].a
           hits   == Matching(before, req'.id)
           first  == FirstMatch(before, req'.id)
       IN (~Falsy(req'.id) /\ res'.status = 200 /\ store[f].t = "array") =>
            /\ req'.method = "GET" =>
                  /\ res'.record.o = before[first].o
                  /\ after = before
            /\ req'.method = "PUT" =>
                  /\ res'.record.o = after[first].o
                  /\ Len(after) = Len(before)
                  /\ \A j \in 1..Len(before) : j # first => after[j] = before[j]
                  /\ after[first].o["updatedAt"] = Str(toISOString(now))
            /\ req'.method = "DELETE" =>
                  /\ Len(after) = Len(before) - Cardinality(hits)
                  /\ Matching(after, req'.id) = {}
                  /\ \A j \in 1..Len(before) : j \notin hits =>
                        after[j - Cardinality({h \in hits : h < j})] = before[j]]_vars

C10_Witness ==
    /\ req.method = "DELETE"
    /\ req.id = Str(sR1)
    /\ res.status = 200
    /\ now = 2
    /\ store[req.filename] = ArrayDoc(<<ObjItem(RecC)>>)

\* the step handles a request of the given methods that passed the
\* permission check
Served(methods) == req'.method \in methods /\ checked'.allowed

\* the request of the step carries no body
NoBody == req'.body.t \in {"undefined", "null"}

\* C11: an authorized POST with a body is a whole-file replace whenever the
\* body is an array or the existing document is not an array: the stored
\* document becomes exactly the request body, nothing is added, and the
\* answer is 201; a POST with no body is answered 400 and stores nothing.
C11_PostReplacesOrRejects ==
    [][Served({"POST"}) =>
         LET f == req'.filename
         IN /\ NoBody => (res'.status = 400 /\ store' = store)
            /\ (~NoBody /\ (req'.body.t = "array"
                              \/ store[f].t \notin {"array", "absent"})) =>
                  /\ res'.status = 201
                  /\ res'.record = NoRecord
                  /\ store'[f] = JsonDoc(req'.body)]_vars

\* C12: an authorized PUT without a record id replaces the whole document
\* with the request body and answers 200, whatever the document held and
\* whether or not it existed, and reads nothing from the store.
C12_PutReplacesWholeFile ==
    [][(Served({"PUT"}) /\ Falsy(req'.id)) =>
         /\ res'.status = 200
         /\ store'[req'.filename] = JsonDoc(req'.body)
         /\ \A i \in 1..Len(io') : io'[i][1] # "read"]_vars

\* C13: an authorized PUT or DELETE with a record id answers 400 when the
\* loaded document is not an array (or does not exist) and 404 when it is an
\* array with no element matching the id, writing nothing in both cases;
\* otherwise the modified array is persisted and the answer is 200.
C13_RecordOpStatuses ==
    [][(Served({"PUT", "DELETE"}) /\ ~Falsy(req'.id)) =>
         LET f == req'.filename
             d == store[f]
         IN IF d.t # "array"
            THEN res'.status = 400 /\ store' = store
            ELSE IF Matching(d.a, req'.id) = {}
            THEN res'.status = 404 /\ store' = store
            ELSE /\ res'.status = 200
                 /\ io' = <<<<"read", f>>, <<"write", f>>>>
                 /\ store'[f].t = "array"]_vars

\* C14: every response with status 400, 401, 403, 404 or 500 has a body with
\* an error category and a message and no success field, the 404 of a
\* whole-document DELETE included.
C14_ErrorBodies ==
    res.status \in {400, 401, 403, 404, 500} =>
        /\ res.shape = "error"
        /\ res.error # ""
        /\ res.message # ""
        /\ res.success = "absent"

\* C15: every request ends with a response set: 204 for OPTIONS, otherwise
\* one of 200, 201, 400, 401, 403, 404, 500; so for GET, POST, PUT, PATCH
\* and DELETE once authentication and authorization have passed.
C15_AlwaysResponded ==
    /\ req.method = "OPTIONS" => res.status = 204
    /\ req.method \in {"GET", "POST", "PUT", "PATCH", "DELETE"} =>
          res.status \in {200, 201, 400, 401, 403, 404, 500}

\* C17: an authorized DELETE without a record id deletes the whole document
\* and answers 200 if the document existed; if it did not, the answer is 404
\* and the store is unchanged.
C17_DeleteWholeFile ==
    [][(Served({"DELETE"}) /\ Falsy(req'.id)) =>
         LET f == req'.filename
         IN IF store[f].t # "absent"
            THEN /\ res'.status = 200
                 /\ store' = [store EXCEPT ![f] = AbsentDoc]
            ELSE /\ res'.status = 404
                 /\ store' = store]_vars

\* a stored document of any shape was deleted and a request is still to come
C17_Witness ==
    /\ req.method = "DELETE"
    /\ Falsy(req.id)
    /\ res.status = 200
    /\ res.message = "File deleted."
    /\ store[req.filename].t = "absent"
    /\ now <= MaxRequests

\* C18: an authorized GET answers 404 when the document does not exist;
\* without a record id it otherwise answers 200 with the stored document
\* verbatim; with a record id on an array document it answers 200 with the
\* first matching record or 404 when none matches.  It never changes the
\* store.
C18_GetContract ==
    [][Served({"GET"}) =>
         LET f == req'.filename
             d == store[f]
         IN /\ store' = store
            /\ d.t = "absent" => res'.status = 404
            /\ (d.t # "absent" /\ Falsy(req'.id)) =>
                  (res'.status = 200 /\ res'.data = d)
            /\ (d.t = "array" /\ ~Falsy(req'.id)) =>
                  IF Matching(d.a, req'.id) = {} THEN res'.status = 404
                  ELSE /\ res'.status = 200
                       /\ res'.record.o = d.a[FirstMatch(d.a, req'.id)].o]_vars

\* positions of io at which the handler made one of the given calls
Calls(accesses, kinds) == {i \in 1..Len(accesses) : accesses[i][1] \in kinds}

\* C20: a POST, PUT or DELETE request reads the target document at most
\* once and writes or deletes it at most once, the read first, and touches
\* no document other than the one named in the route.
C20_OneReadOneWrite ==
    [][req'.method \in {"POST", "PUT", "DELETE"} =>
         /\ Cardinality(Calls(io', {"read"})) <= 1
         /\ Cardinality(Calls(io', {"write", "delete"})) <= 1
         /\ \A i \in Calls(io', {"read"}), j \in Calls(io', {"write", "delete"}) : i < j
         /\ \A i \in 1..Len(io') : io'[i][2] = req'.filename
         /\ \A g \in DOMAIN store : g # req'.filename => store'[g] = store[g]]_vars

C20_Witness ==
    /\ req.method = "PUT"
    /\ ~Falsy(req.id)
    /\ res.status = 200
    /\ io = <<<<"read", req.filename>>, <<"write", req.filename>>>>
    /\ store["clients.json"] = ArrayDoc(<<ObjItem(RecA)>>)

\* C16: if a store read, write or delete throws while an authorized request
\* is processed, the answer is 500 carrying the exception's message and the
\* store is what it was before the request.
C16_StoreFailureIs500 ==
    [][fault' # NoFault =>
         /\ checked'.allowed
         /\ res'.status = 500
         /\ res'.shape = "error"
         /\ res'.message = StoreErrorMessage
         /\ store' = store]_vars

\* the write of a read-modify-write threw after the read had succeeded
C16_Witness ==
    /\ fault = 2
    /\ req.method = "POST"
    /\ req.body.t = "object"
    /\ io = <<<<"read", req.filename>>, <<"write", req.filename>>>>
    /\ res.status = 500
    /\ store[req.filename].t = "array"
    /\ Len(store[req.filename].a) = 3

Success(r) == r.status \in {200, 201}

\* the elements of a stored document
Elements(d) == IF d.t = "array" THEN {d.a[i] : i \in 1..Len(d.a)} ELSE {}

\* In this step invocation q resumes and returns success, after invocation
\* p, which had loaded the same content of the same document, returned
\* success.
Overtakes(p, q) ==
    /\ p # q
    /\ inflight[p].pc = "done"
    /\ inflight[q].pc = "loaded"
    /\ inflight'[q].pc = "done"
    /\ inflight[p].req.filename = inflight[q].req.filename
    /\ inflight[p].snapshot = inflight[q].snapshot
    /\ Success(inflight[p].res)
    /\ Success(inflight'[q].res)

\* C19: the read-modify-write window is unprotected.  When two record-level
\* writes (POST appends, PUTs by id) of the same document have loaded the
\* same content and both return a success status, the document stored after
\* the later one holds the content they loaded with the later writer's
\* change only: the earlier writer's record or update is not in it.
C19_EarlierWriteLost ==
    [][\A p, q \in Slots : Overtakes(p, q) =>
          LET f     == inflight[q].req.filename
              base  == Elements(inflight[q].snapshot)
              first == ObjItem(inflight[p].res.record.o)
              later == ObjItem(inflight'[q].res.record.o)
          IN /\ first \notin Elements(store'[f])
             /\ later \in Elements(store'[f])
             /\ Cardinality(Elements(store'[f]) \ base) = 1
             /\ Len(store'[f].a) = Cardinality(base)
                    + (IF inflight[q].req.method = "POST" THEN 1 ELSE 0)]_vars

\* two POST appends to the same array both answered 201, one record stored
C19_Witness ==
    /\ \A p \in {1, 2} :
          /\ inflight[p].pc = "done"
          /\ inflight[p].req.method = "POST"
          /\ inflight[p].res.status = 201
          /\ inflight[p].snapshot =
                ArrayDoc(<<ObjItem(RecB), ObjItem(RecA), ObjItem(RecC)>>)
    /\ inflight[1].res.record # inflight[2].res.record
    /\ Len(store[CrudFile].a) = 4


(* ---------------- claims about the merge reconciler -------------------- *)

\* the records of one ISO's list
Records(data, iso) ==
    IF iso \in DOMAIN data THEN {data[iso][i] : i \in 1..Len(data[iso])} ELSE {}

\* a step that applies mergeMonthlyData to the incoming list
MonthlyStep == pc = "merge" /\ monthlyData.exists /\ applied' = applied + 1

\* C21: applying mergeMonthlyData a second time with the same incoming list
\* leaves the database as the first application left it and reports
\* added = 0, updated = 0 and unchanged = the number of incoming records.
C21_Idempotent ==
    [][(MonthlyStep /\ applied >= 1)
        => /\ database' = database
           /\ mStats' = [added |-> 0, updated |-> 0,
                         unchanged |-> Len(monthlyData.records)]]_vars

\* C22: an existing record with a non-zero price whose key is that of
\* incoming records that all have a zero price is still in the database
\* after the merge, and those incoming records are counted as unchanged.
C22_ZeroNeverOverwrites ==
    [][MonthlyStep
        => \A iso \in DOMAIN database.data :
             \A e \in Records(database.data, iso) :
               LET inc  == monthlyData.records
                   same == {i \in 1..Len(inc) : monthlyKey(inc[i]) = monthlyKey(e)}
               IN (/\ e.avg_da_lmp # 0
                   /\ same # {}
                   /\ \A i \in same : Normalized(inc[i]).avg_da_lmp = 0)
                  => /\ e \in Records(database'.data, iso)
                     /\ mStats'.unchanged >= Cardinality(same)]_vars

\* the existing records with the key of an incoming record
ExistingFor(data, r) == {e \in Records(data, r.iso) : monthlyKey(e) = monthlyKey(r)}

\* the outcome the three-way rule gives an incoming record, the zero-guard
\* being: incoming price zero and existing price non-zero
Outcome3(data, r) ==
    LET n == Normalized(r)
    IN IF ExistingFor(data, r) = {} THEN "added"
       ELSE IF /\ ~(n.avg_da_lmp = 0 /\ \E e \in ExistingFor(data, r) : e.avg_da_lmp # 0)
               /\ \E e \in ExistingFor(data, r) : Abs(e.avg_da_lmp - n.avg_da_lmp) > Epsilon
       THEN "updated"
       ELSE "unchanged"

\* no incoming record has the key of another one, before or after normalization
DistinctKeys(inc) ==
    \A i, j \in 1..Len(inc) :
        i # j => /\ monthlyKey(inc[i]) # monthlyKey(inc[j])
                 /\ monthlyKey(Normalized(inc[i])) # monthlyKey(inc[j])

\* C23: the three counts add up to the number of incoming records, and
\* each incoming record is inserted and counted added when no existing
\* record has its key, replaces the existing record and is counted updated
\* when the zero-guard does not apply and the prices differ by more than
\* 0.0001, and otherwise leaves the existing record and is counted unchanged.
C23_ThreeWay ==
    [][MonthlyStep
        => LET inc == monthlyData.records
               old == database.data
               Of(o) == {i \in 1..Len(inc) : Outcome3(old, inc[i]) = o}
           IN /\ mStats'.added + mStats'.updated + mStats'.unchanged = Len(inc)
              /\ DistinctKeys(inc)
                 => /\ mStats' = [added     |-> Cardinality(Of("added")),
                                  updated   |-> Cardinality(Of("updated")),
                                  unchanged |-> Cardinality(Of("unchanged"))]
                    /\ \A i \in Of("added") \cup Of("updated") :
                          Normalized(inc[i]) \in Records(database'.data, inc[i].iso)
                    /\ \A i \in Of("unchanged") :
                          ExistingFor(old, inc[i]) \subseteq Records(database'.data, inc[i].iso)]_vars

\* code points of the characters of zones, years and months
CodePoint(c) ==
    CHOOSE i \in 1..23 :
        <<"-", "0", "1", "2", "3", "4", "5", "6", "7", "8", "9",
          "A", "B", "C", "E", "G", "I", "J", "M", "N", "O", "P", "S">>[i] = c

\* s <= t in the lexicographic order of strings
RECURSIVE StringLeq(_, _)
StringLeq(s, t) ==
    IF s = <<>> THEN TRUE
    ELSE IF t = <<>> THEN FALSE
    ELSE IF Head(s) = Head(t) THEN StringLeq(Tail(s), Tail(t))
    ELSE CodePoint(Head(s)) < CodePoint(Head(t))

\* a comes no later than b in the order by (zone, year, month)
TripleLeq(a, b) ==
    IF a.zone # b.zone THEN StringLeq(a.zone, b.zone)
    ELSE IF a.year.s # b.year.s THEN StringLeq(a.year.s, b.year.s)
    ELSE StringLeq(a.month.s, b.month.s)

HourlyStep == pc = "merge" /\ ~monthlyData.exists /\ applied' = applied + 1

\* the (iso, year-month) keys of the incoming payload
PayloadKeys ==
    IF hourlyData.exists /\ hourlyData.hasData THEN BlockKeys(hourlyData.data) ELSE {}

\* the block of an hourly map at a key
BlockAt(h, k) == h[k[1]][k[2]]

\* the incoming blocks with at least one non-zero price
NonZeroKeys == {k \in PayloadKeys : \E i \in 1..Len(BlockAt(hourlyData.data, k)) :
                                        BlockAt(hourlyData.data, k)[i].p # 0}

\* the incoming blocks that hold records, all of them with a zero price
AllZeroKeys == {k \in PayloadKeys :
                   /\ Len(BlockAt(hourlyData.data, k)) > 0
                   /\ \A i \in 1..Len(BlockAt(hourlyData.data, k)) :
                         BlockAt(hourlyData.data, k)[i].p = 0}

\* C24: after mergeHourlyData the stored block of every incoming key with a
\* non-zero price is the incoming block, counted added if no block existed
\* and updated otherwise; the blocks of the keys that are not in the payload
\* are as they were, and no such key appears or disappears.
C24_BlockReplaced ==
    [][HourlyStep
        => LET old == BlockKeys(database.hourly)
               new == BlockKeys(database'.hourly)
           IN /\ \A k \in NonZeroKeys :
                    k \in new /\ BlockAt(database'.hourly, k) = BlockAt(hourlyData.data, k)
              /\ hStats'.addedMonths = Cardinality(NonZeroKeys \ old)
              /\ hStats'.updatedMonths = Cardinality(NonZeroKeys \cap old)
              /\ new \ PayloadKeys = old \ PayloadKeys
              /\ \A k \in old \ PayloadKeys :
                    BlockAt(database'.hourly, k) = BlockAt(database.hourly, k)]_vars

\* a merge that added one block, replaced another and left a third alone
C24_Witness ==
    /\ pc = "merge" /\ ~monthlyData.exists /\ applied = 1
    /\ hStats.addedMonths >= 1
    /\ hStats.updatedMonths >= 1
    /\ BlockKeys(database.hourly) \ PayloadKeys # {}

Requests(cs, kind) == {i \in 1..Len(cs) : cs[i][1] = kind}

\* the run's read of the database was rejected
GetFailed(cs) == \E i \in 1..Len(cs) : cs[i] = <<"GET", "error">>

\* C26: once the fetch of the existing database has failed, the run issues
\* no PUT and the remote document stays as it is; and a run that exits with
\* failure has not replaced the remote document.
C26_FetchFailureAborts ==
    [][/\ GetFailed(calls') => (Requests(calls', "PUT") = {} /\ remote' = remote)
       /\ exitCode' = "1" =>
             (remote' = remote /\ \A i \in 1..Len(calls') : calls'[i] # <<"PUT", "ok">>)]_vars

\* the monthly keys of a document
MonthlyKeys(doc) ==
    UNION {{monthlyKey(r) : r \in Records(doc.db.data, iso)} : iso \in DOMAIN doc.db.data}

\* C27: a write of the reconciler removes nothing: every monthly key and
\* every hourly block key of the remote document before the write is in the
\* remote document after it.
C27_NeverDeletes ==
    [][remote' # remote
        => /\ MonthlyKeys(remote) \subseteq MonthlyKeys(remote')
           /\ BlockKeys(remote.db.hourly) \subseteq BlockKeys(remote'.db.hourly)]_vars

\* what holds of the reads, merges and writes of a run at every point of it,
\* whether or not it passed the start-up checks
ReadMergeWrite ==
    /\ Cardinality(Requests(calls, "GET")) <= 1
    /\ Cardinality(Requests(calls, "PUT")) <= 1
    /\ applied >= 1 => (Len(calls) >= 1 /\ calls[1][1] = "GET")
    /\ \A i \in Requests(calls, "PUT") :
          /\ i = 2
          /\ calls[1][1] = "GET"
          /\ applied = 2
          /\ \/ mStats.added > 0
             \/ mStats.updated > 0
             \/ hStats.addedMonths > 0
             \/ hStats.updatedMonths > 0
          /\ calls[i][2] = "error" => (pc = "exited" /\ exitCode = "1")

FileKeys(records) == {getRecordKey(records[i]) : i \in 1..Len(records)}

\* the lmp values a list of records holds under a key
LmpAt(records, key) ==
    {records[i].lmp : i \in {j \in 1..Len(records) : getRecordKey(records[j]) = key}}

\* C30: a run of the file-based updater keeps every key of the database,
\* adds the key of every fetched record, and leaves under a key whose
\* fetched records all carry one lmp value that differs from the stored one
\* a record with the fetched value.
C30_AddsReplacesPreserves ==
    [][(pc = "start" /\ fetched.exists /\ pc' = "exited")
        => LET old == dbFile.records
               new == dbFile'.records
               inc == [i \in 1..Len(fetched.records) |-> normalizeRecord(fetched.records[i])]
           IN /\ FileKeys(old) \subseteq FileKeys(new)
              /\ FileKeys(inc) \subseteq FileKeys(new)
              /\ \A k \in FileKeys(inc) \cap FileKeys(old) :
                    \A v \in LmpAt(inc, k) :
                       (LmpAt(inc, k) = {v} /\ v \notin LmpAt(old, k))
                          => LmpAt(new, k) = {v}]_vars

\* no two records of a list have the same (iso, zone, year, month) key
UniqueKeys(list) ==
    \A i, j \in 1..Len(list) : i # j => monthlyKey(list[i]) # monthlyKey(list[j])

\* C37: mergeMonthlyData preserves key uniqueness: when no two records of
\* any ISO's list share a key before the call, none do after it.
C37_KeysStayUnique ==
    [][(MonthlyStep /\ \A iso \in DOMAIN database.data : UniqueKeys(database.data[iso]))
        => \A iso \in DOMAIN database'.data : UniqueKeys(database'.data[iso])]_vars

(* ------------------ further claims about the gateway ------------------- *)

\* C38: an authorized GET with a record id on a document that exists and is
\* not an array answers 200 with the whole document.  (A GET leaves the
\* store as it is, so the document is the one the request found.)
C38_GetByIdOnNonArray ==
    (/\ req.method = "GET"
     /\ checked.allowed
     /\ ~Falsy(req.id)
     /\ store[req.filename].t \notin {"absent", "array"})
        => /\ res.status = 200
           /\ res.shape = "document"
           /\ res.data = store[req.filename]

\* the operation a method that reaches the store stands for
StoreOperation(method) ==
    IF method = "GET" THEN "read" ELSE IF method = "DELETE" THEN "delete" ELSE "write"

\* C31: a request answered 204, 401, 403, or 400 for a missing filename
\* has made no store read, write or delete; a request that has made one
\* carried a key of the valid-key list whose role the table allows the
\* operation on the named document, and accessed that document only.
C31_NoAccessBeforeAuthorized ==
    /\ (res.status \in {204, 401, 403} \/ (res.status = 400 /\ req.filename = ""))
          => io = <<>>
    /\ io # <<>>
          => /\ Authenticated
             /\ req.method \in {"GET", "POST", "PUT", "DELETE"}
             /\ TableAllows(req.key.s, req.filename, StoreOperation(req.method))
             /\ \A i \in 1..Len(io) : io[i][2] = req.filename

\* a request with a listed key refused by the permission check, on a
\* document the store holds
C31_Witness ==
    /\ res.status = 403
    /\ Authenticated
    /\ store[req.filename].t = "array"
    /\ io = <<>>

\* C34: in the permission table every role's delete set is a subset of its
\* write set and its write set a subset of its read set; and after any
\* sequence of requests the permission check still decides as the table
\* says.
C34_DeleteWithinWriteWithinRead ==
    /\ \A role \in DOMAIN FILE_PERMISSIONS :
          /\ FILE_PERMISSIONS[role].delete \subseteq FILE_PERMISSIONS[role].write
          /\ FILE_PERMISSIONS[role].write \subseteq FILE_PERMISSIONS[role].read
    /\ checked.reached
          => (checked.allowed <=> TableAllows(req.key.s, req.filename, checked.operation))

\* the permission check has allowed a delete, a write and a read, each on
\* a document of the role's list
C34_Witness ==
    /\ checked.reached
    /\ checked.allowed
    /\ checked.operation = "delete"
    /\ TableAllows(req.key.s, req.filename, "write")
    /\ TableAllows(req.key.s, req.filename, "read")

\* the request of the step carried a key of the valid-key list
Authenticated1 == ~Falsy(req'.key) /\ req'.key.s \in validKeys

\* C32: the content of a document changes, or the document is deleted, only
\* in a step that handles a request on that document with a key of the
\* valid-key list whose role has the document in its write set (POST, PUT)
\* or in its delete set (DELETE); a readonly key changes nothing and only
\* an admin key changes users.json.
C32_NoPrivilegeEscalation ==
    [][/\ \A d \in DOMAIN store :
             store'[d] # store[d]
                => /\ d = req'.filename
                   /\ Authenticated1
                   /\ \/ /\ req'.method \in {"POST", "PUT"}
                         /\ TableAllows(req'.key.s, d, "write")
                      \/ /\ req'.method = "DELETE"
                         /\ TableAllows(req'.key.s, d, "delete")
       /\ (now' # now /\ ResolvesTo(req'.key.s, sReadonly)) => store' = store
       /\ store'["users.json"] # store["users.json"] => ResolvesTo(req'.key.s, sAdmin)]_vars

\* an admin key has replaced an element of users.json, and the key may not
\* delete that document
C32_Witness ==
    /\ req.filename = "users.json"
    /\ req.method = "PUT"
    /\ ~Falsy(req.id)
    /\ ResolvesTo(req.key.s, sAdmin)
    /\ res.status = 200
    /\ ~TableAllows(req.key.s, "users.json", "delete")

\* the documents the role of a key may read
ReadSet(key) == {d \in AccessDocs : TableAllows(key.s, d, "read")}

\* the stores that differ from st in one document outside R
Variants(st, R) ==
    {[st EXCEPT ![d] = alt] :
        d \in AccessDocs \ R, alt \in {AbsentDoc, ArrayDoc(<<ObjItem(RecB)>>)}}

\* C33: a response carries a document or a record only when the key is of
\* the valid-key list and its role has the requested document in its read
\* set; and a request gets the same response, and leaves the documents of
\* its role's read set the same and the others alone, on every store that
\* differs from the actual one in a document outside that read set.
C33_NoReadLeak ==
    [][now' # now
        => LET r == req'
               R == ReadSet(r.key)
           IN /\ (res'.record # NoRecord \/ res'.data # AbsentDoc)
                    => (Authenticated1 /\ r.filename \in R)
              /\ \A st2 \in Variants(store, R) :
                    LET other == Invocation(st2, validKeys, now, r.method, r.key,
                                            r.filename, r.id, r.body, AccessSuffix).ok
                    IN /\ other.res = res'
                       /\ \A d \in R : other.store[d] = store'[d]
                       /\ \A d \in AccessDocs \ R : other.store[d] = st2[d]]_vars

\* an ae key has read a record of energy-profiles.json while users.json,
\* which it may not read, holds records
C33_Witness ==
    /\ req.method = "GET"
    /\ ResolvesTo(req.key.s, sAe)
    /\ req.filename = "energy-profiles.json"
    /\ res.shape = "record"
    /\ store["users.json"].t = "array"
    /\ ~TableAllows(req.key.s, "users.json", "read")

(* --------------------- claims about records in place ------------------- *)

\* the records of a document, none for one that is absent
RecordsOf(d) == IF d.t = "array" THEN d.a ELSE <<>>

\* the step is a POST of an object body to a document that is an array or
\* absent
AppendingPost ==
    /\ now' # now
    /\ req'.method = "POST"
    /\ req'.body.t = "object"
    /\ store[req'.filename].t \in {"array", "absent"}

\* C35: a POST of an object body to an array or absent document leaves the
\* stored records as they were and in their order, makes the array one
\* longer with the new record last, and keeps the id of the body also when a
\* stored record already carries it.
C35_AppendLeavesRecords ==
    [][AppendingPost
        => LET old == RecordsOf(store[req'.filename])
               new == store'[req'.filename]
           IN /\ res'.status = 201
              /\ new.t = "array"
              /\ Len(new.a) = Len(old) + 1
              /\ SubSeq(new.a, 1, Len(old)) = old
              /\ new.a[Len(new.a)] = [t |-> "object", o |-> res'.record.o]
              /\ ~Falsy(req'.body.o["id"])
                    => new.a[Len(new.a)].o["id"] = req'.body.o["id"]
              /\ \A d \in DOMAIN store \ {req'.filename} : store'[d] = store[d]]_vars

\* a record was appended under an id that an earlier record of the array has
C35_Witness ==
    /\ req.method = "POST"
    /\ res.status = 201
    /\ LET a == store[req.filename].a
       IN /\ Len(a) >= 2
          /\ a[Len(a)].o["id"] = Str(sR1)
          /\ a[Len(a)].o = res.record.o
          /\ \E i \in 1..(Len(a) - 1) : a[i].t = "object" /\ a[i].o["id"] = Str(sR1)

\* the step replaces the first record answering to the id and no other
OnlyFirstMatchReplaced ==
    LET old == store[req'.filename].a
        new == store'[req'.filename].a
        i == FirstMatch(old, req'.id)
    IN /\ store[req'.filename].t = "array"
       /\ store'[req'.filename].t = "array"
       /\ i # 0
       /\ Len(new) = Len(old)
       /\ \A j \in 1..Len(old) : j # i => new[j] = old[j]
       /\ new[i] = [t |-> "object", o |-> res'.record.o]
       /\ \A d \in DOMAIN store \ {req'.filename} : store'[d] = store[d]

\* C36 as stated: a successful PUT by id replaces the first matching record
\* and no other, and the merged record has every field of the existing
\* record and of the body, with the body's value for each of its fields
\* other than id and createdAt.
C36_BodyWinsButIdCreatedAt ==
    [][PutRecordOk
        => /\ OnlyFirstMatchReplaced
           /\ LET existing == RecordBefore
                  body == req'.body.o
                  merged == res'.record.o
              IN /\ Keys(existing) \cup Keys(body) \subseteq Keys(merged)
                 /\ \A f \in Keys(body) \ {"id", "createdAt"} : merged[f] = body[f]
                 /\ \A f \in Keys(existing) \cap {"id", "createdAt"} :
                       merged[f] = existing[f]]_vars

\* C36: a successful PUT by id replaces the first matching record and no
\* other; the merged record has every field of the existing record and
\* every field of the body other than id and createdAt; id and createdAt
\* are those of the existing record, absent when it has none; updatedAt and
\* updatedBy are the time of the request and the role of the key; every
\* other field of the body has the body's value.
C36_BodyWinsButStamps ==
    [][PutRecordOk
        => /\ OnlyFirstMatchReplaced
           /\ LET existing == RecordBefore
                  body == req'.body.o
                  merged == res'.record.o
              IN /\ Keys(existing) \cup (Keys(body) \ {"id", "createdAt"})
                       \subseteq Keys(merged)
                 /\ \A f \in {"id", "createdAt"} : merged[f] = existing[f]
                 /\ merged["updatedAt"] = Str(toISOString(now))
                 /\ merged["updatedBy"] = Str(sAe)
                 /\ \A f \in Keys(body) \ {"id", "createdAt", "updatedAt", "updatedBy"} :
                       merged[f] = body[f]
                 /\ \A f \in Keys(merged) \ (Keys(body) \cup {"updatedAt", "updatedBy"}) :
                       merged[f] = existing[f]]_vars

\* a PUT whose body carries an id and both update stamps has replaced the
\* first of two records answering to r1, the one located through _id
C36_Witness ==
    /\ req.method = "PUT"
    /\ req.id = Str(sR1)
    /\ res.status = 200
    /\ req.body.o["updatedBy"] = Str(sEvil)
    /\ req.body.o["id"] = Str(sR2)
    /\ LET a == store[req.filename].a
       IN /\ Len(a) >= 2
          /\ a[1].o = res.record.o
          /\ a[1].o["_id"] = Str(sR1)
          /\ a[1].o["id"] = Absent
          /\ a[2] = ObjItem(RecA)

(* ------------------------- claims about UserStore ---------------------- *)

\* C39: from a list with pairwise-distinct emails, after any sequence of
\* create, update and delete calls no two users have the same email
\* ignoring case.
C39_EmailsStayUnique ==
    \A i, j \in 1..Len(users) :
        i # j => toLowerCase(users[i].email.s) # toLowerCase(users[j].email.s)

\* C40: after init and any sequence of create, update and delete calls the
\* list holds an account with the email admin@sesenergy.org.
C40_DefaultAdminStays ==
    \E i \in 1..Len(users) : users[i].email = Str(sAdminEmail)

====
